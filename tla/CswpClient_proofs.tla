-------------------------- MODULE CswpClient_proofs --------------------------
(***************************************************************************)
(* Proofs about CswpClient, for any number of commands and handles: types, *)
(* requests, the order of execution, whose buffers a response fills, what  *)
(* success means, and the session behind a handle.                         *)
(***************************************************************************)
EXTENDS CswpClient, SequenceFacts, FiniteSetTheorems, TLAPS

Modes == {"NONE", "CONTINUE", "ABORT"}
Executed == [id : Nat, mode : Modes]
CommandResponse == [op : Op, id : Nat, ok : BOOLEAN]

(***************************************************************************)
(* The inductive invariant.  Numbers are given out in order, so what has   *)
(* been executed or answered is older than the commands of an open batch,  *)
(* and these older than the next one; a batch holds only commands without  *)
(* state of their own; and until something fails no response is left over. *)
(***************************************************************************)
Ordered(s) == \A i, j \in DOMAIN s : i < j => s[i].id < s[j].id
Below(s, limit) == \A i \in DOMAIN s : s[i].id < limit
SlotsBelow(limit) == \A r \in replies : r.slot < limit
Newer(s) ==
    /\ \A i \in DOMAIN s : Below(executed, s[i].id)
    /\ \A i \in DOMAIN s : SlotsBelow(s[i].id)

BatchInv ==
    batch # "NONE" =>
        /\ Ordered(cmdBuf) /\ Below(cmdBuf, nextId) /\ Newer(cmdBuf)
        /\ \A i \in DOMAIN cmdBuf : cmdBuf[i].op \in {"OPEN", "READ"}
NumbersInv == Below(executed, nextId) /\ SlotsBelow(nextId)
NothingLeft == ~doubtful => inbox = <<>>

Inv ==
    /\ TypeOK
    /\ HonestRequest /\ BatchInv /\ NumbersInv /\ NothingLeft
    /\ ExecutedOnce /\ ReplyToOwnCommand /\ SuccessMeansDone /\ SessionWhileHeld
-----------------------------------------------------------------------------
(* The commands the server executes are those of the request, in order,    *)
(* without the failed one and, in an ABORT batch, without those behind it. *)
LEMMA DoneFacts ==
    ASSUME NEW body \in Seq(Command), NEW mode, NEW f \in 1 .. Len(body) + 1
    PROVE  /\ Done(body, Len(body), mode, f) \in Seq(Command)
           /\ \A j \in DOMAIN Done(body, Len(body), mode, f) :
                 /\ (IF j < f THEN j ELSE j + 1) \in DOMAIN body
                 /\ Done(body, Len(body), mode, f)[j] = body[IF j < f THEN j ELSE j + 1]
           /\ f = Len(body) + 1 => Done(body, Len(body), mode, f) = body
<1> DEFINE a == SubSeq(body, 1, f - 1)
           b == IF mode = "ABORT" THEN <<>> ELSE SubSeq(body, f + 1, Len(body))
           d == Done(body, Len(body), mode, f)
<1>1. Len(body) \in Nat /\ f \in Nat /\ 1 <= f /\ f <= Len(body) + 1 /\ DOMAIN body = 1 .. Len(body)
  OBVIOUS
<1>2. a \in Seq(Command) /\ Len(a) = f - 1 /\ \A j \in 1 .. f - 1 : a[j] = body[j]
  BY <1>1, SubSeqFacts
<1>3. /\ b \in Seq(Command) /\ Len(b) \in Nat /\ f - 1 + Len(b) <= Len(body)
      /\ b # <<>> => f - 1 + Len(b) <= Len(body) - 1
      /\ \A j \in 1 .. Len(b) : b[j] = body[f + j]
  <2>1. CASE mode = "ABORT"  BY <1>1, <2>1
  <2>2. CASE mode # "ABORT"
    <3> DEFINE c == SubSeq(body, f + 1, Len(body))
    <3>1. /\ c \in Seq(Command)
          /\ Len(c) = IF f + 1 <= Len(body) THEN Len(body) - (f + 1) + 1 ELSE 0
          /\ \A j \in 1 .. Len(body) - (f + 1) + 1 : c[j] = body[f + 1 + j - 1]
      BY <1>1, SubSeqFacts
    <3>2. b = c  BY <2>2
    <3> HIDE DEF b, c
    <3>3. CASE f + 1 <= Len(body)
      <4>1. Len(c) = Len(body) - f  BY <1>1, <3>1, <3>3
      <4>2. ASSUME NEW j \in 1 .. Len(body) - f PROVE c[j] = body[f + j]
        <5>1. j \in 1 .. Len(body) - (f + 1) + 1 /\ f + 1 + j - 1 = f + j  BY <1>1
        <5>2. c[j] = body[f + 1 + j - 1]  BY <3>1, <5>1
        <5> QED BY <5>1, <5>2
      <4>3. /\ Len(b) \in Nat /\ f - 1 + Len(b) <= Len(body) - 1
            /\ f - 1 + Len(b) <= Len(body)
        BY <1>1, <3>2, <4>1
      <4>4. \A j \in 1 .. Len(b) : b[j] = body[f + j]  BY <3>2, <4>1, <4>2
      <4> QED BY <3>1, <3>2, <4>3, <4>4
    <3>4. CASE ~(f + 1 <= Len(body))
      <4>1. Len(c) = 0  BY <3>1, <3>4
      <4>2. c = <<>>  BY <3>1, <4>1
      <4>3. Len(b) = 0 /\ f - 1 + Len(b) <= Len(body)  BY <1>1, <3>2, <4>1
      <4>4. \A j \in 1 .. Len(b) : b[j] = body[f + j]  BY <4>3
      <4> QED BY <3>1, <3>2, <4>2, <4>3, <4>4
    <3> QED BY <3>3, <3>4
  <2> QED BY <2>1, <2>2
<1>4. d = a \o b  BY DEF Done
<1> HIDE DEF a, b, d
<1>5. d \in Seq(Command) /\ Len(d) = f - 1 + Len(b) /\ DOMAIN d = 1 .. Len(d)
  <2>1. a \o b \in Seq(Command) /\ Len(a \o b) = Len(a) + Len(b)
    BY <1>2, <1>3, ConcatProperties, Zenon
  <2>2. d \in Seq(Command) /\ Len(d) = f - 1 + Len(b)  BY <1>2, <1>4, <2>1
  <2> QED BY <2>2
<1>6. ASSUME NEW j \in DOMAIN d
      PROVE  /\ (IF j < f THEN j ELSE j + 1) \in DOMAIN body
             /\ d[j] = body[IF j < f THEN j ELSE j + 1]
  <2>1. CASE j < f
    <3>1. d[j] = a[j] /\ j \in 1 .. f - 1  BY <1>1, <1>2, <1>3, <1>4, <1>5, <2>1
    <3> QED BY <1>1, <1>2, <2>1, <3>1
  <2>2. CASE ~(j < f)
    <3>0. j \in Nat /\ j <= f - 1 + Len(b) /\ j - (f - 1) \in 1 .. Len(b)
      BY <1>1, <1>3, <1>5, <2>2
    <3>1. d[j] = b[j - (f - 1)] /\ j - (f - 1) \in 1 .. Len(b)
      <4>1. \A i \in 1 .. Len(a) + Len(b) :
               (a \o b)[i] = IF i <= Len(a) THEN a[i] ELSE b[i - Len(a)]
        BY <1>2, <1>3, ConcatProperties, Zenon
      <4>2. j \in 1 .. Len(a) + Len(b) /\ ~(j <= Len(a)) /\ j - Len(a) = j - (f - 1)
        BY <1>1, <1>2, <1>3, <1>5, <2>2
      <4> QED BY <1>4, <3>0, <4>1, <4>2
    <3>2. b[j - (f - 1)] = body[f + (j - (f - 1))] /\ f + (j - (f - 1)) = j + 1
      BY <1>1, <1>3, <1>5, <3>1
    <3>3. b # <<>>  BY <3>1
    <3>4. j + 1 \in DOMAIN body  BY <1>1, <1>3, <1>5, <2>2, <3>1, <3>3
    <3> QED BY <2>2, <3>1, <3>2, <3>4
  <2> QED BY <2>1, <2>2
<1>7. f = Len(body) + 1 => d = body
  <2> SUFFICES ASSUME f = Len(body) + 1 PROVE d = body
    OBVIOUS
  <2>1. Len(d) = Len(body)
    <3>1. f - 1 = Len(body)  BY <1>1
    <3>2. Len(b) = 0  BY <1>1, <1>3, <3>1
    <3> QED BY <1>1, <1>5, <3>1, <3>2
  <2>2. \A j \in 1 .. Len(d) : d[j] = body[j]  BY <1>1, <1>5, <1>6, <2>1
  <2> QED BY <1>5, <2>1, <2>2, SeqEqual
<1> QED BY <1>5, <1>6, <1>7 DEF d

(* What the execution of a request's commands leaves, if they are newer    *)
(* than all before them and their numbers grow.                            *)
LEMMA ExecuteFacts ==
    ASSUME TypeOK, ExecutedOnce, NEW limit \in Nat, Below(executed, limit),
           NEW body \in Seq(Command), Ordered(body), Below(body, limit), Newer(body),
           NEW mode \in Modes, NEW f \in 1 .. Len(body) + 1,
           Execute(body, Len(body), mode, f)
    PROVE  /\ executed' \in Seq(Executed) /\ session' \in BOOLEAN
           /\ Ordered(executed') /\ Below(executed', limit)
           /\ f = Len(body) + 1 =>
                 \A i \in DOMAIN body : \E j \in DOMAIN executed' : executed'[j].id = body[i].id
           /\ session /\ (\A i \in DOMAIN body : body[i].op # "TERM") => session'
           /\ /\ f = Len(body) + 1
              /\ \A i \in DOMAIN body : body[i].op = "INIT"
              /\ body # <<>>
              => session'
<1> DEFINE d == Done(body, Len(body), mode, f)
           new == [j \in DOMAIN d |-> [id |-> d[j].id, mode |-> mode]]
           At(j) == IF j < f THEN j ELSE j + 1
<1>1. /\ d \in Seq(Command)
      /\ \A j \in DOMAIN d : At(j) \in DOMAIN body /\ d[j] = body[At(j)]
      /\ f = Len(body) + 1 => d = body
  BY DoneFacts
<1>2. /\ executed' = executed \o new
      /\ session' = IF \E j \in DOMAIN d : d[j].op = "TERM" THEN FALSE
                    ELSE session \/ \E j \in DOMAIN d : d[j].op = "INIT"
  BY DEF Execute
<1>3. executed \in Seq(Executed) /\ session \in BOOLEAN  BY DEF TypeOK, Executed, Modes
<1> HIDE DEF d
<1>4. /\ new \in Seq(Executed) /\ Len(new) = Len(d) /\ Len(d) \in Nat /\ DOMAIN d = 1 .. Len(d)
      /\ \A j \in 1 .. Len(d) : new[j].id = d[j].id
  <2>1. Len(d) \in Nat /\ DOMAIN d = 1 .. Len(d)  BY <1>1
  <2>2. ASSUME NEW j \in 1 .. Len(d) PROVE [id |-> d[j].id, mode |-> mode] \in Executed
    <3>1. d[j] \in Command  BY <1>1, <2>1
    <3>2. d[j].id \in Nat  BY <3>1 DEF Command
    <3> QED BY <3>2 DEF Executed
  <2>3. [j \in 1 .. Len(d) |-> [id |-> d[j].id, mode |-> mode]] \in Seq(Executed)
    BY <2>1, <2>2
  <2> QED BY <2>1, <2>3
<1> HIDE DEF new
<1>5. /\ executed' \in Seq(Executed) /\ Len(executed) \in Nat
      /\ DOMAIN executed' = 1 .. Len(executed) + Len(d) /\ DOMAIN executed = 1 .. Len(executed)
      /\ \A j \in 1 .. Len(executed) : executed'[j] = executed[j]
      /\ \A j \in 1 .. Len(d) : executed'[Len(executed) + j] = new[j]
  <2>1. Len(executed) \in Nat /\ DOMAIN executed = 1 .. Len(executed)  BY <1>3
  <2>2. /\ executed \o new \in Seq(Executed) /\ Len(executed \o new) = Len(executed) + Len(new)
        /\ \A i \in 1 .. Len(executed) + Len(new) :
              (executed \o new)[i] = IF i <= Len(executed) THEN executed[i]
                                    ELSE new[i - Len(executed)]
    <3>1. new \in Seq(Executed)  BY <1>4
    <3> QED BY <1>3, <3>1, ConcatProperties, Zenon
  <2>3. DOMAIN executed' = 1 .. Len(executed) + Len(d)  BY <1>2, <1>4, <2>2
  <2>4. ASSUME NEW j \in 1 .. Len(executed) PROVE executed'[j] = executed[j]
    <3>1. j \in 1 .. Len(executed) + Len(new) /\ j <= Len(executed)  BY <1>4, <2>1
    <3> QED BY <1>2, <2>2, <3>1
  <2>5. ASSUME NEW j \in 1 .. Len(d) PROVE executed'[Len(executed) + j] = new[j]
    <3>1. /\ Len(executed) + j \in 1 .. Len(executed) + Len(new)
          /\ ~(Len(executed) + j <= Len(executed)) /\ (Len(executed) + j) - Len(executed) = j
      BY <1>4, <2>1
    <3> QED BY <1>2, <2>2, <3>1
  <2> QED BY <1>2, <2>1, <2>2, <2>3, <2>4, <2>5
<1>6. ASSUME NEW j \in 1 .. Len(d)
      PROVE  /\ executed'[Len(executed) + j].id = d[j].id /\ d[j].id \in Nat
             /\ d[j].id < limit
             /\ \A i \in 1 .. Len(executed) : executed[i].id < d[j].id
  <2>1. executed'[Len(executed) + j].id = d[j].id  BY <1>4, <1>5
  <2>2. At(j) \in DOMAIN body /\ d[j] = body[At(j)] /\ d[j] \in Command  BY <1>1, <1>4
  <2>3. d[j].id \in Nat /\ d[j].id < limit  BY <2>2 DEF Below, Command
  <2>4. \A i \in 1 .. Len(executed) : executed[i].id < d[j].id
    BY <1>5, <2>2 DEF Newer, Below
  <2> QED BY <2>1, <2>3, <2>4
<1>7. ASSUME NEW i \in 1 .. Len(d), NEW j \in 1 .. Len(d), i < j PROVE d[i].id < d[j].id
  <2>1. /\ At(i) \in DOMAIN body /\ d[i] = body[At(i)]
        /\ At(j) \in DOMAIN body /\ d[j] = body[At(j)]
    BY <1>1, <1>4
  <2>2. At(i) < At(j)  BY <1>4, <1>7
  <2> QED BY <2>1, <2>2 DEF Ordered
<1>8. Ordered(executed')
  <2> SUFFICES ASSUME NEW i \in DOMAIN executed', NEW j \in DOMAIN executed', i < j
               PROVE  executed'[i].id < executed'[j].id
    BY DEF Ordered
  <2>1. CASE j <= Len(executed)
    <3>1. i \in DOMAIN executed /\ j \in DOMAIN executed  BY <1>4, <1>5, <2>1
    <3> QED BY <1>5, <3>1 DEF ExecutedOnce
  <2>2. CASE j > Len(executed) /\ i <= Len(executed)
    <3>1. j - Len(executed) \in 1 .. Len(d) /\ Len(executed) + (j - Len(executed)) = j
          /\ i \in 1 .. Len(executed)
      BY <1>4, <1>5, <2>2
    <3> QED BY <1>5, <1>6, <3>1
  <2>3. CASE i > Len(executed)
    <3>0. i \in Nat /\ j \in Nat /\ j <= Len(executed) + Len(d) /\ i <= Len(executed) + Len(d)
      BY <1>4, <1>5
    <3>1. /\ j - Len(executed) \in 1 .. Len(d) /\ Len(executed) + (j - Len(executed)) = j
          /\ i - Len(executed) \in 1 .. Len(d) /\ Len(executed) + (i - Len(executed)) = i
          /\ i - Len(executed) < j - Len(executed)
      BY <1>4, <1>5, <2>3, <3>0
    <3> QED BY <1>6, <1>7, <3>1
  <2> QED BY <1>4, <1>5, <2>1, <2>2, <2>3
<1>9. Below(executed', limit)
  <2> SUFFICES ASSUME NEW i \in DOMAIN executed' PROVE executed'[i].id < limit
    BY DEF Below
  <2>1. CASE i <= Len(executed)
    <3>1. i \in DOMAIN executed  BY <1>4, <1>5, <2>1
    <3> QED BY <1>5, <3>1 DEF Below
  <2>2. CASE i > Len(executed)
    <3>1. i - Len(executed) \in 1 .. Len(d) /\ Len(executed) + (i - Len(executed)) = i
      BY <1>4, <1>5, <2>2
    <3> QED BY <1>6, <3>1
  <2> QED BY <1>4, <1>5, <2>1, <2>2
<1>10. ASSUME f = Len(body) + 1, NEW i \in DOMAIN body
       PROVE  \E j \in DOMAIN executed' : executed'[j].id = body[i].id
  <2>1. d = body /\ i \in 1 .. Len(d)  BY <1>1, <1>4, <1>10
  <2>2. Len(executed) + i \in DOMAIN executed'  BY <1>4, <1>5, <2>1
  <2> QED BY <1>6, <2>1, <2>2
<1>11. session' \in BOOLEAN  BY <1>2, <1>3, Zenon
<1>12. session /\ (\A i \in DOMAIN body : body[i].op # "TERM") => session'
  <2>1. (\A i \in DOMAIN body : body[i].op # "TERM") => ~(\E j \in DOMAIN d : d[j].op = "TERM")
    BY <1>1
  <2> QED BY <1>2, <2>1
<1>13. ASSUME f = Len(body) + 1, \A i \in DOMAIN body : body[i].op = "INIT", body # <<>>
       PROVE  session'
  <2>1. d = body /\ 1 \in DOMAIN d /\ d[1].op = "INIT"  BY <1>1, <1>4, <1>13
  <2>2. ~(\E j \in DOMAIN d : d[j].op = "TERM")  BY <1>13, <2>1
  <2> QED BY <1>2, <2>1, <2>2
<1> QED BY <1>5, <1>8, <1>9, <1>10, <1>11, <1>12, <1>13

(* Among commands with growing numbers, those that were answered are       *)
(* counted by the position of the last one.                                *)
LEMMA CountAnswered ==
    ASSUME NEW body \in Seq(Command), Ordered(body), NEW k \in 0 .. Len(body), NEW answers,
           \A i \in DOMAIN body :
               [slot |-> body[i].id, from |-> body[i].id] \in answers <=> i <= k
    PROVE  Cardinality({ id \in { body[i].id : i \in DOMAIN body } :
                           [slot |-> id, from |-> id] \in answers }) = k
<1> DEFINE S == { id \in { body[i].id : i \in DOMAIN body } : [slot |-> id, from |-> id] \in answers }
           g == [i \in 1 .. k |-> body[i].id]
<1>1. Len(body) \in Nat /\ DOMAIN body = 1 .. Len(body) /\ k \in Nat /\ k <= Len(body)
  OBVIOUS
<1>2. \A i \in 1 .. k : g[i] \in S
  BY <1>1
<1>3. \A x \in S : \E i \in 1 .. k : g[i] = x
  <2> SUFFICES ASSUME NEW x \in S PROVE \E i \in 1 .. k : g[i] = x
    OBVIOUS
  <2>1. PICK i \in DOMAIN body : x = body[i].id  OBVIOUS
  <2>2. i \in 1 .. k  BY <1>1, <2>1
  <2> QED BY <2>1, <2>2
<1>4. \A i, j \in 1 .. k : g[i] = g[j] => i = j
  <2> SUFFICES ASSUME NEW i \in 1 .. k, NEW j \in 1 .. k, i # j PROVE g[i] # g[j]
    OBVIOUS
  <2>0. i \in DOMAIN body /\ j \in DOMAIN body  BY <1>1
  <2>1. body[i].id \in Nat /\ body[j].id \in Nat
    <3>1. body[i] \in Command /\ body[j] \in Command  BY <2>0
    <3> QED BY <3>1 DEF Command
  <2>2. i < j \/ j < i  BY <1>1
  <2>3. body[i].id # body[j].id  BY <2>0, <2>1, <2>2 DEF Ordered
  <2> QED BY <2>3
<1> HIDE DEF S
<1>5. g \in Bijection(1 .. k, S)
  BY <1>2, <1>3, <1>4 DEF Bijection, Injection, Surjection, IsInjective
<1>6. ExistsBijection(1 .. k, S)  BY <1>5 DEF ExistsBijection
<1>7. Cardinality(S) = k  BY <1>1, <1>6, FS_CountingElements
<1> QED BY <1>7 DEF S

(* The server answers every command of the request, in order, and reports  *)
(* that all went well only if none failed.                                 *)
LEMMA ResponseFacts ==
    ASSUME NEW body \in Seq(Command), NEW mode, NEW f \in 1 .. Len(body) + 1,
           NEW rsp, rsp = Response(body, Outcome(Len(body), mode, f))
    PROVE  /\ rsp \in Seq(CommandResponse) /\ Len(rsp) = Len(body)
           /\ \A i \in 1 .. Len(body) : rsp[i].id = body[i].id
           /\ (\A i \in 1 .. Len(body) : rsp[i].ok) => f = Len(body) + 1
<1>1. Len(body) \in Nat /\ DOMAIN body = 1 .. Len(body)  OBVIOUS
<1> DEFINE ok == Outcome(Len(body), mode, f)
<1>2. /\ DOMAIN ok = 1 .. Len(body)
      /\ \A i \in 1 .. Len(body) : ok[i] = (i < f \/ (i > f /\ mode # "ABORT"))
  BY DEF Outcome
<1> HIDE DEF ok
<1>3. rsp = [i \in 1 .. Len(body) |-> [op |-> body[i].op, id |-> body[i].id, ok |-> ok[i]]]
  BY <1>2 DEF Response, ok
<1>4. ASSUME NEW i \in 1 .. Len(body)
      PROVE  [op |-> body[i].op, id |-> body[i].id, ok |-> ok[i]] \in CommandResponse
  <2>1. body[i] \in Command  BY <1>1
  <2>2. body[i].op \in Op /\ body[i].id \in Nat  BY <2>1 DEF Command
  <2>3. ok[i] \in BOOLEAN  BY <1>2, Zenon
  <2> QED BY <2>2, <2>3, Zenon DEF CommandResponse
<1>5. rsp \in Seq(CommandResponse) /\ Len(rsp) = Len(body)  BY <1>1, <1>3, <1>4
<1>6. \A i \in 1 .. Len(body) : rsp[i].id = body[i].id  BY <1>3
<1>7. ASSUME \A i \in 1 .. Len(body) : rsp[i].ok PROVE f = Len(body) + 1
  <2> SUFFICES ASSUME f # Len(body) + 1 PROVE FALSE
    OBVIOUS
  <2>1. f \in 1 .. Len(body)  BY <1>1
  <2>2. rsp[f].ok = ok[f]  BY <1>3, <2>1
  <2>3. ~ok[f]
    <3>1. ~(f < f) /\ ~(f > f)  BY <2>1
    <3> QED BY <1>2, <2>1, <3>1, Zenon
  <2> QED BY <1>7, <2>1, <2>2, <2>3
<1> QED BY <1>5, <1>6, <1>7

(* What the receive leaves: types, and only the callers whose commands were *)
(* pending get their buffers filled.                                        *)
LEMMA ReceiveFacts ==
    ASSUME TypeOK, NEW body \in Seq(Command), NEW box \in Seq(Seq(CommandResponse)),
           transact_receive(box, Len(body), body)
    PROVE  /\ inbox' \in Seq(Seq(CommandResponse)) /\ doubtful' \in BOOLEAN
           /\ replies' \subseteq [slot : Nat, from : Nat]
           /\ last' \in [res : Result, ids : SUBSET Nat, ops : Nat, fits : SUBSET Nat]
           /\ \A r \in replies' : r \in replies \/ \E i \in DOMAIN body : r.slot = body[i].id
           /\ box = <<>> => doubtful'
           /\ ~doubtful' => ~doubtful
<1> DEFINE ids == { body[i].id : i \in DOMAIN body }
<1>1. Len(body) \in Nat /\ DOMAIN body = 1 .. Len(body)  OBVIOUS
<1>2. \A i \in DOMAIN body : body[i].id \in Nat
  <2> SUFFICES ASSUME NEW i \in DOMAIN body PROVE body[i].id \in Nat
    OBVIOUS
  <2>1. body[i] \in Command  OBVIOUS
  <2> QED BY <2>1 DEF Command
<1>3. ids \in SUBSET Nat  BY <1>2
<1>4. doubtful \in BOOLEAN /\ replies \subseteq [slot : Nat, from : Nat]  BY DEF TypeOK
<1> HIDE DEF ids
<1>5. CASE /\ inbox' = box
           /\ last' = [res |-> "TIMEOUT", ids |-> ids, ops |-> 0, fits |-> {}]
           /\ doubtful' = TRUE
           /\ UNCHANGED replies
  BY <1>3, <1>4, <1>5 DEF Result
<1>6. CASE /\ box # <<>> /\ inbox' = Tail(box) /\ (UNCHANGED doubtful \/ doubtful' = TRUE)
           /\ last' = [res |-> "RESPONSE_SIZE_ERR", ids |-> ids, ops |-> 0, fits |-> {}]
           /\ UNCHANGED replies
  <2>1. inbox' \in Seq(Seq(CommandResponse))  BY <1>6
  <2>2. last' \in [res : Result, ids : SUBSET Nat, ops : Nat, fits : SUBSET Nat]  BY <1>3, <1>6 DEF Result
  <2>3. doubtful' \in BOOLEAN /\ (doubtful => doubtful')
    <3>1. CASE doubtful' = doubtful  BY <1>4, <3>1, Zenon
    <3>2. CASE doubtful' = TRUE  BY <3>2, Zenon
    <3> QED BY <1>6, <3>1, <3>2
  <2> QED BY <1>4, <1>6, <2>1, <2>2, <2>3
<1>7. CASE /\ box # <<>> /\ inbox' = Tail(box) /\ UNCHANGED doubtful
           /\ Len(Head(box)) = Len(body)
           /\ \E fits \in SUBSET DOMAIN body, k \in 0 .. Len(body) :
                /\ last' = [res |-> IF k = Len(body) THEN "SUCCESS" ELSE "ERROR",
                            ids |-> ids, ops |-> k, fits |-> { body[i].id : i \in fits }]
                /\ replies' = replies \cup
                     { [slot |-> body[i].id, from |-> Head(box)[i].id] : i \in 1 .. k }
  <2>1. inbox' \in Seq(Seq(CommandResponse))  BY <1>7
  <2>2. PICK fits \in SUBSET DOMAIN body, k \in 0 .. Len(body) :
                /\ last' = [res |-> IF k = Len(body) THEN "SUCCESS" ELSE "ERROR",
                            ids |-> ids, ops |-> k, fits |-> { body[i].id : i \in fits }]
                /\ replies' = replies \cup
                     { [slot |-> body[i].id, from |-> Head(box)[i].id] : i \in 1 .. k }
    BY <1>7
  <2>3. last' \in [res : Result, ids : SUBSET Nat, ops : Nat, fits : SUBSET Nat]
    <3>1. k \in Nat  BY <1>1
    <3>2. { body[i].id : i \in fits } \in SUBSET Nat  BY <1>2
    <3> QED BY <1>3, <2>2, <3>1, <3>2 DEF Result
  <2>4. Head(box) \in Seq(CommandResponse)  BY <1>7
  <2>5. ASSUME NEW i \in 1 .. k
        PROVE  /\ i \in DOMAIN body /\ body[i].id \in Nat /\ Head(box)[i].id \in Nat
    <3>0. DOMAIN Head(box) = 1 .. Len(body)  BY <1>7, <2>4
    <3>1. i \in DOMAIN body /\ i \in DOMAIN Head(box)  BY <1>1, <3>0
    <3>2. Head(box)[i] \in CommandResponse  BY <2>4, <3>1
    <3> QED BY <1>2, <3>1, <3>2 DEF CommandResponse
  <2>6. replies' \subseteq [slot : Nat, from : Nat]  BY <1>4, <2>2, <2>5
  <2>7. \A r \in replies' : r \in replies \/ \E i \in DOMAIN body : r.slot = body[i].id
    BY <2>2, <2>5
  <2>8. doubtful' = doubtful  BY <1>7
  <2> QED BY <1>4, <1>7, <2>1, <2>3, <2>6, <2>7, <2>8
<1>8. \/ /\ inbox' = box
         /\ last' = [res |-> "TIMEOUT", ids |-> ids, ops |-> 0, fits |-> {}]
         /\ doubtful' = TRUE
         /\ UNCHANGED replies
      \/ /\ box # <<>> /\ inbox' = Tail(box) /\ (UNCHANGED doubtful \/ doubtful' = TRUE)
         /\ last' = [res |-> "RESPONSE_SIZE_ERR", ids |-> ids, ops |-> 0, fits |-> {}]
         /\ UNCHANGED replies
      \/ /\ box # <<>> /\ inbox' = Tail(box) /\ UNCHANGED doubtful
         /\ Len(Head(box)) = Len(body)
         /\ \E fits \in SUBSET DOMAIN body, k \in 0 .. Len(body) :
              /\ last' = [res |-> IF k = Len(body) THEN "SUCCESS" ELSE "ERROR",
                          ids |-> ids, ops |-> k, fits |-> { body[i].id : i \in fits }]
              /\ replies' = replies \cup
                   { [slot |-> body[i].id, from |-> Head(box)[i].id] : i \in 1 .. k }
  BY Zenon DEF transact_receive, NotProcessed, ids
<1> QED BY <1>5, <1>6, <1>7, <1>8

(***************************************************************************)
(* A whole transaction, of commands that are newer than all before them    *)
(* and numbered in order: it keeps every part of the invariant that is     *)
(* about the server, the responses and the results.                        *)
(***************************************************************************)
Results(limit) ==
    /\ inbox' \in Seq(Seq(CommandResponse)) /\ doubtful' \in BOOLEAN /\ session' \in BOOLEAN
    /\ executed' \in Seq(Executed) /\ replies' \subseteq [slot : Nat, from : Nat]
    /\ last' \in [res : Result, ids : SUBSET Nat, ops : Nat, fits : SUBSET Nat]
    /\ Ordered(executed') /\ Below(executed', limit) /\ \A r \in replies' : r.slot < limit
    /\ NothingLeft' /\ ReplyToOwnCommand' /\ SuccessMeansDone'
    /\ ~doubtful' => ~doubtful

LEMMA TransactFacts ==
    ASSUME TypeOK, NothingLeft, ExecutedOnce, ReplyToOwnCommand,
           NEW limit \in Nat, Below(executed, limit), SlotsBelow(limit),
           NEW body \in Seq(Command), Ordered(body), Below(body, limit), Newer(body),
           NEW mode \in Modes, NEW up, transact(up, body, Len(body), body, mode)
    PROVE  /\ cmdBuf' = body /\ numCmds' = Len(body) /\ pending' = <<>>
           /\ Results(limit)
           /\ session /\ (\A i \in DOMAIN body : body[i].op # "TERM") => session'
           /\ /\ ~doubtful' /\ last'.res = "SUCCESS"
              /\ \A i \in DOMAIN body : body[i].op = "INIT"
              /\ body # <<>>
              => session'
<1> DEFINE ids == { body[i].id : i \in DOMAIN body }
           n == Len(body)
           Server ==
             /\ executed' \in Seq(Executed) /\ session' \in BOOLEAN
             /\ Ordered(executed') /\ Below(executed', limit)
             /\ session /\ (\A i \in DOMAIN body : body[i].op # "TERM") => session'
           Rsp(f) == Response(body, Outcome(n, mode, f))
<1>1. n \in Nat /\ DOMAIN body = 1 .. n  OBVIOUS
<1>2. /\ inbox \in Seq(Seq(CommandResponse)) /\ executed \in Seq(Executed)
      /\ replies \subseteq [slot : Nat, from : Nat]
      /\ session \in BOOLEAN
  BY DEF TypeOK, CommandResponse, Executed, Modes
<1>3. \A i \in DOMAIN body : body[i].id \in Nat /\ body[i].id < limit
  <2> SUFFICES ASSUME NEW i \in DOMAIN body PROVE body[i].id \in Nat /\ body[i].id < limit
    OBVIOUS
  <2>1. body[i] \in Command  OBVIOUS
  <2> QED BY <2>1 DEF Command, Below
<1>4. ids \in SUBSET Nat  BY <1>3
<1>5. UNCHANGED <<session, executed>> => Server
  BY <1>2 DEF ExecutedOnce, Ordered
<1>6. \A f \in 1 .. n + 1 : Execute(body, n, mode, f) => Server
  BY ExecuteFacts
<1>7. cmdBuf' = body /\ numCmds' = n /\ pending' = <<>>  BY DEF transact
<1>8. \A f \in 1 .. n + 1 : Append(inbox, Rsp(f)) \in Seq(Seq(CommandResponse))
  <2> SUFFICES ASSUME NEW f \in 1 .. n + 1 PROVE Append(inbox, Rsp(f)) \in Seq(Seq(CommandResponse))
    OBVIOUS
  <2>1. Rsp(f) \in Seq(CommandResponse)  BY ResponseFacts
  <2> HIDE DEF Rsp
  <2> QED BY <1>2, <2>1
<1>9. ASSUME Server, doubtful', doubtful' \in BOOLEAN,
             inbox' \in Seq(Seq(CommandResponse)), replies' \subseteq [slot : Nat, from : Nat],
             last' \in [res : Result, ids : SUBSET Nat, ops : Nat, fits : SUBSET Nat],
             \A r \in replies' : r \in replies \/ \E i \in DOMAIN body : r.slot = body[i].id
      PROVE  Results(limit)
  <2>1. \A r \in replies' : r.slot < limit
    BY <1>3, <1>9 DEF SlotsBelow
  <2> QED BY <1>9, <2>1, Zenon DEF Results, NothingLeft, ReplyToOwnCommand, SuccessMeansDone
<1> HIDE DEF ids, Server, Rsp
<1>10. CASE /\ last' = [res |-> "TXFAILED", ids |-> ids, ops |-> last.ops, fits |-> {}]
            /\ doubtful' = TRUE /\ UNCHANGED replies
            /\ \/ UNCHANGED serverVars
               \/ up /\ \E f \in 1 .. n + 1 :
                     /\ Execute(body, n, mode, f)
                     /\ inbox' = Append(inbox, Rsp(f))
  <2>1. Server /\ inbox' \in Seq(Seq(CommandResponse))
    BY <1>2, <1>5, <1>6, <1>8, <1>10 DEF serverVars
  <2>2. last' \in [res : Result, ids : SUBSET Nat, ops : Nat, fits : SUBSET Nat]  BY <1>4, <1>10 DEF Result, TypeOK
  <2>3. doubtful' /\ doubtful' \in BOOLEAN /\ replies' = replies  BY <1>10
  <2>4. Results(limit)  BY <1>2, <1>9, <2>1, <2>2, <2>3
  <2> QED BY <1>7, <2>1, <2>3, <2>4 DEF Server
<1>11. CASE UNCHANGED <<session, executed>> /\ transact_receive(inbox, n, body)
  <2>1. Server  BY <1>5, <1>11
  <2>2. /\ inbox' \in Seq(Seq(CommandResponse)) /\ doubtful' \in BOOLEAN
        /\ replies' \subseteq [slot : Nat, from : Nat]
        /\ last' \in [res : Result, ids : SUBSET Nat, ops : Nat, fits : SUBSET Nat]
        /\ \A r \in replies' : r \in replies \/ \E i \in DOMAIN body : r.slot = body[i].id
        /\ inbox = <<>> => doubtful'
        /\ ~doubtful' => ~doubtful
    BY <1>2, <1>11, ReceiveFacts
  <2>3. doubtful'  BY <2>2 DEF NothingLeft
  <2>4. Results(limit)  BY <1>9, <2>1, <2>2, <2>3
  <2> QED BY <1>7, <2>1, <2>3, <2>4 DEF Server
<1>12. ASSUME NEW f \in 1 .. n + 1, Execute(body, n, mode, f),
              transact_receive(Append(inbox, Rsp(f)), n, body)
       PROVE  /\ Results(limit)
              /\ session /\ (\A i \in DOMAIN body : body[i].op # "TERM") => session'
              /\ /\ ~doubtful' /\ last'.res = "SUCCESS"
                 /\ \A i \in DOMAIN body : body[i].op = "INIT"
                 /\ body # <<>>
                 => session'
  <2> DEFINE box == Append(inbox, Rsp(f))
             rsp == Rsp(f)
  <2>1. Server  BY <1>6, <1>12
  <2>2. box \in Seq(Seq(CommandResponse))  BY <1>8
  <2>3. /\ inbox' \in Seq(Seq(CommandResponse)) /\ doubtful' \in BOOLEAN
        /\ replies' \subseteq [slot : Nat, from : Nat]
        /\ last' \in [res : Result, ids : SUBSET Nat, ops : Nat, fits : SUBSET Nat]
        /\ \A r \in replies' : r \in replies \/ \E i \in DOMAIN body : r.slot = body[i].id
        /\ ~doubtful' => ~doubtful
    BY <1>12, <2>2, ReceiveFacts
  <2>4. CASE doubtful'
    <3>1. Results(limit)  BY <1>9, <2>1, <2>3, <2>4
    <3> QED BY <2>1, <2>4, <3>1 DEF Server
  <2>5. CASE ~doubtful'
    <3>1. ~doubtful /\ inbox = <<>>  BY <2>3, <2>5 DEF NothingLeft
    <3>2. /\ rsp \in Seq(CommandResponse) /\ Len(rsp) = n
          /\ \A i \in 1 .. n : rsp[i].id = body[i].id
          /\ (\A i \in 1 .. n : rsp[i].ok) => f = n + 1
      BY ResponseFacts DEF Rsp
    <3> HIDE DEF rsp
    <3>3. box = <<rsp>>  BY <3>1 DEF rsp
    <3>4. Head(box) = rsp /\ Tail(box) = <<>>  BY <3>3
    <3> HIDE DEF box
    <3>5. /\ inbox' = Tail(box)
          /\ \E fits \in SUBSET DOMAIN body, k \in 0 .. n :
                /\ verify_response(rsp, body, fits, k)
                /\ last' = [res |-> IF k = n THEN "SUCCESS" ELSE "ERROR", ids |-> ids, ops |-> k,
                            fits |-> { body[i].id : i \in fits }]
                /\ replies' = replies \cup
                     { [slot |-> body[i].id, from |-> rsp[i].id] : i \in 1 .. k }
      <4>1. transact_receive(box, n, body)  BY <1>12 DEF box
      <4>2. Len(Head(box)) = n  BY <3>2, <3>4
      <4>3. /\ inbox' = Tail(box)
            /\ \E fits \in SUBSET DOMAIN body, k \in 0 .. n :
                  /\ verify_response(Head(box), body, fits, k)
                  /\ last' = [res |-> IF k = n THEN "SUCCESS" ELSE "ERROR", ids |-> ids, ops |-> k,
                              fits |-> { body[i].id : i \in fits }]
                  /\ replies' = replies \cup
                       { [slot |-> body[i].id, from |-> Head(box)[i].id] : i \in 1 .. k }
        BY <2>5, <4>1, <4>2, Zenon DEF transact_receive, NotProcessed, ids
      <4> QED BY <3>4, <4>3
    <3>6. PICK fits \in SUBSET DOMAIN body, k \in 0 .. n :
                /\ \A i \in 1 .. k : rsp[i].ok
                /\ last' = [res |-> IF k = n THEN "SUCCESS" ELSE "ERROR", ids |-> ids, ops |-> k,
                            fits |-> { body[i].id : i \in fits }]
                /\ replies' = replies \cup
                     { [slot |-> body[i].id, from |-> rsp[i].id] : i \in 1 .. k }
      BY <3>5 DEF verify_response, Matches
    <3>7. k \in Nat /\ k <= n  BY <1>1
    <3>8. last'.ids = ids /\ last'.ops = k /\ (last'.res = "SUCCESS" => k = n)  BY <3>6
    <3>9. last'.res = "SUCCESS" => f = n + 1  BY <3>2, <3>6, <3>8
    <3>10. /\ f = n + 1 =>
                 \A i \in DOMAIN body : \E j \in DOMAIN executed' : executed'[j].id = body[i].id
           /\ f = n + 1 /\ (\A i \in DOMAIN body : body[i].op = "INIT") /\ body # <<>> => session'
      BY <1>12, ExecuteFacts
    <3>11. NothingLeft'  BY <3>4, <3>5 DEF NothingLeft
    <3>12. \A i \in 1 .. k : rsp[i].id = body[i].id /\ i \in DOMAIN body  BY <1>1, <3>2, <3>7
    <3>13. ReplyToOwnCommand'
      <4>1. \A r \in replies' : r.slot = r.from  BY <3>1, <3>6, <3>12 DEF ReplyToOwnCommand
      <4> QED BY <4>1 DEF ReplyToOwnCommand
    <3>14. ASSUME NEW i \in DOMAIN body
           PROVE  [slot |-> body[i].id, from |-> body[i].id] \in replies' <=> i <= k
      <4>1. CASE i <= k
        <5>1. i \in 1 .. k  BY <1>1, <3>7, <4>1
        <5> QED BY <3>6, <3>12, <4>1, <5>1
      <4>2. CASE ~(i <= k)
        <5>1. ASSUME [slot |-> body[i].id, from |-> body[i].id] \in replies PROVE FALSE
          <6>1. body[i].id < body[i].id  BY <5>1 DEF Newer, SlotsBelow
          <6> QED BY <1>3, <6>1
        <5>2. ASSUME NEW j \in 1 .. k, [slot |-> body[i].id, from |-> body[i].id] =
                                       [slot |-> body[j].id, from |-> rsp[j].id]
              PROVE  FALSE
          <6>1. body[i].id = body[j].id  BY <5>2
          <6>2. j < i /\ j \in DOMAIN body  BY <1>1, <3>7, <3>12, <4>2
          <6>3. body[j].id < body[i].id  BY <6>2 DEF Ordered
          <6> QED BY <1>3, <6>1, <6>2, <6>3
        <5> QED BY <3>6, <4>2, <5>1, <5>2
      <4> QED BY <4>1, <4>2
    <3>15. last'.ops = Cardinality({ id \in last'.ids : [slot |-> id, from |-> id] \in replies' })
      <4>1. Cardinality({ id \in { body[i].id : i \in DOMAIN body } :
                            [slot |-> id, from |-> id] \in replies' }) = k
        BY <3>14, CountAnswered
      <4> QED BY <3>8, <4>1 DEF ids
    <3>16. last'.res = "SUCCESS" =>
             \A id \in last'.ids : \E i \in DOMAIN executed' : executed'[i].id = id
      BY <3>8, <3>9, <3>10 DEF ids
    <3>17. SuccessMeansDone'  BY <3>15, <3>16 DEF SuccessMeansDone
    <3>18. \A r \in replies' : r.slot < limit  BY <1>3, <2>3 DEF SlotsBelow
    <3>19. Results(limit)
      BY <2>1, <2>3, <3>1, <3>11, <3>13, <3>17, <3>18 DEF Results, Server
    <3> QED BY <2>1, <3>9, <3>10, <3>19 DEF Server
  <2> QED BY <2>4, <2>5
<1>13. \/ /\ last' = [res |-> "TXFAILED", ids |-> ids, ops |-> last.ops, fits |-> {}]
          /\ doubtful' = TRUE /\ UNCHANGED replies
          /\ \/ UNCHANGED serverVars
             \/ up /\ \E f \in 1 .. n + 1 :
                   /\ Execute(body, n, mode, f)
                   /\ inbox' = Append(inbox, Rsp(f))
       \/ UNCHANGED <<session, executed>> /\ transact_receive(inbox, n, body)
       \/ \E f \in 1 .. n + 1 :
             /\ Execute(body, n, mode, f)
             /\ transact_receive(Append(inbox, Rsp(f)), n, body)
  BY Zenon DEF transact, NotProcessed, ids, Rsp
<1> QED BY <1>7, <1>10, <1>11, <1>12, <1>13

(* A call with one command of its own, outside a batch. *)
LEMMA OneCommand ==
    ASSUME Inv, NEW op \in Op, NEW up, nextId <= MaxId,
           transact(up, <<[op |-> op, id |-> nextId]>>, 1, <<[op |-> op, id |-> nextId]>>, "NONE")
    PROVE  /\ cmdBuf' \in Seq(Command) /\ numCmds' \in Nat /\ pending' \in Seq(Command)
           /\ Results(nextId + 1) /\ nextId + 1 \in 1 .. MaxId + 1
           /\ session /\ op # "TERM" => session'
           /\ ~doubtful' /\ last'.res = "SUCCESS" /\ op = "INIT" => session'
<1> DEFINE c == [op |-> op, id |-> nextId]
           body == <<c>>
           limit == nextId + 1
<1>1. nextId \in Nat /\ limit \in Nat /\ nextId < limit /\ limit \in 1 .. MaxId + 1
  BY ClientAssumption DEF Inv, TypeOK
<1>2. c \in Command  BY <1>1 DEF Command
<1>3. c.id = nextId /\ c.op = op  OBVIOUS
<1> HIDE DEF c
<1>4. body \in Seq(Command) /\ Len(body) = 1 /\ DOMAIN body = {1} /\ body[1] = c  BY <1>2
<1>5. transact(up, body, Len(body), body, "NONE")  BY <1>4 DEF c
<1> HIDE DEF body
<1>6. Ordered(body) /\ Below(body, limit)  BY <1>1, <1>3, <1>4 DEF Ordered, Below
<1>7. \A i \in DOMAIN executed : executed[i].id \in Nat
  <2>1. executed \in Seq(Executed)  BY DEF Inv, TypeOK, Executed, Modes
  <2> SUFFICES ASSUME NEW i \in DOMAIN executed PROVE executed[i].id \in Nat
    OBVIOUS
  <2>2. executed[i] \in Executed  BY <2>1
  <2> QED BY <2>2 DEF Executed
<1>8. \A r \in replies : r.slot \in Nat  BY DEF Inv, TypeOK
<1>9. Newer(body)  BY <1>3, <1>4 DEF Newer, Inv, NumbersInv
<1>10. Below(executed, limit) /\ SlotsBelow(limit)
  BY <1>1, <1>7, <1>8 DEF Inv, NumbersInv, Below, SlotsBelow
<1>11. "NONE" \in Modes  BY DEF Modes
<1> HIDE DEF limit
<1>12. /\ cmdBuf' = body /\ numCmds' = Len(body) /\ pending' = <<>>
       /\ Results(limit)
       /\ session /\ (\A i \in DOMAIN body : body[i].op # "TERM") => session'
       /\ /\ ~doubtful' /\ last'.res = "SUCCESS"
          /\ \A i \in DOMAIN body : body[i].op = "INIT"
          /\ body # <<>>
          => session'
  BY <1>1, <1>4, <1>5, <1>6, <1>9, <1>10, <1>11, TransactFacts DEF Inv
<1>13. cmdBuf' \in Seq(Command) /\ numCmds' \in Nat /\ pending' \in Seq(Command)
  BY <1>4, <1>12
<1>14. body # <<>> /\ \A i \in DOMAIN body : body[i].op = op  BY <1>3, <1>4
<1>15. Results(nextId + 1) /\ nextId + 1 \in 1 .. MaxId + 1  BY <1>1, <1>12 DEF limit
<1> QED BY <1>12, <1>13, <1>14, <1>15

(* The invariant after a transaction. *)
LEMMA AfterTransaction ==
    ASSUME Inv, NEW limit \in 1 .. MaxId + 1, Results(limit), nextId' = limit,
           connected' \in 0 .. MaxHandles + 1, link' \in BOOLEAN, gaveUp' \in BOOLEAN,
           batch' = "NONE", cmdBuf' \in Seq(Command), numCmds' \in Nat, pending' \in Seq(Command),
           SessionWhileHeld'
    PROVE  Inv'
<1>1. TypeOK'
  BY DEF Results, TypeOK, CommandResponse, Executed, Modes
<1>2. HonestRequest' /\ BatchInv'  BY DEF HonestRequest, BatchInv
<1>3. NumbersInv'  BY DEF Results, NumbersInv, SlotsBelow
<1>4. ExecutedOnce'  BY DEF Results, ExecutedOnce, Ordered
<1> QED BY <1>1, <1>2, <1>3, <1>4 DEF Results, Inv

(* The invariant after a step without a transaction. *)
LEMMA WithoutTransaction ==
    ASSUME Inv, UNCHANGED <<serverVars, resultVars>>, nextId' \in 1 .. MaxId + 1, nextId <= nextId',
           connected' \in 0 .. MaxHandles + 1, link' \in BOOLEAN, gaveUp' \in BOOLEAN,
           batch' \in {"NONE", "CONTINUE", "ABORT"}, cmdBuf' \in Seq(Command), numCmds' \in Nat,
           pending' \in Seq(Command), connected' > 0 => connected > 0,
           HonestRequest', BatchInv'
    PROVE  Inv'
<1>1. /\ UNCHANGED <<inbox, session, executed, replies, last, doubtful>>
  BY DEF serverVars, resultVars
<1>2. TypeOK'  BY <1>1 DEF Inv, TypeOK
<1>3. nextId \in Nat /\ nextId' \in Nat  BY ClientAssumption DEF Inv, TypeOK
<1>4. NumbersInv'
  <2>1. executed \in Seq(Executed)  BY DEF Inv, TypeOK, Executed, Modes
  <2>2. ASSUME NEW i \in DOMAIN executed PROVE executed[i].id < nextId'
    <3>1. executed[i] \in Executed  BY <2>1
    <3>2. executed[i].id \in Nat  BY <3>1 DEF Executed
    <3>3. executed[i].id < nextId  BY DEF Inv, NumbersInv, Below
    <3> QED BY <1>3, <3>2, <3>3
  <2>3. ASSUME NEW r \in replies PROVE r.slot < nextId'
    <3>1. r.slot \in Nat  BY DEF Inv, TypeOK
    <3>2. r.slot < nextId  BY DEF Inv, NumbersInv, SlotsBelow
    <3> QED BY <1>3, <3>1, <3>2
  <2> QED BY <1>1, <2>2, <2>3 DEF NumbersInv, Below, SlotsBelow
<1>5. NothingLeft' /\ ExecutedOnce' /\ ReplyToOwnCommand'
  BY <1>1 DEF Inv, NothingLeft, ExecutedOnce, ReplyToOwnCommand
<1>6. SuccessMeansDone'  BY <1>1 DEF Inv, SuccessMeansDone
<1>7. SessionWhileHeld'  BY <1>1 DEF Inv, SessionWhileHeld
<1> QED BY <1>2, <1>4, <1>5, <1>6, <1>7 DEF Inv
-----------------------------------------------------------------------------
LEMMA InitInv == Init => Inv
<1> SUFFICES ASSUME Init PROVE Inv
  OBVIOUS
<1>1. TypeOK
  <2>1. session \in BOOLEAN  BY Zenon DEF Init
  <2>2. last \in [res : Result, ids : SUBSET Nat, ops : Nat, fits : SUBSET Nat]  BY DEF Init, Result
  <2>3. inbox \in Seq(Seq([op : Op, id : Nat, ok : BOOLEAN]))
    <3>1. inbox = <<>>  BY DEF Init
    <3> QED BY <3>1
  <2>4. executed \in Seq([id : Nat, mode : {"NONE", "CONTINUE", "ABORT"}])
    <3>1. executed = <<>>  BY DEF Init
    <3> QED BY <3>1
  <2>5. connected \in 0 .. MaxHandles + 1 /\ nextId \in 1 .. MaxId + 1
    BY ClientAssumption DEF Init
  <2>6. link \in BOOLEAN /\ gaveUp \in BOOLEAN /\ doubtful \in BOOLEAN  BY Zenon DEF Init
  <2>7. cmdBuf \in Seq(Command) /\ pending \in Seq(Command)  BY DEF Init
  <2>8. /\ batch \in {"NONE", "CONTINUE", "ABORT"} /\ numCmds \in Nat
        /\ replies \subseteq [slot : Nat, from : Nat]
    BY DEF Init
  <2> QED BY <2>1, <2>2, <2>3, <2>4, <2>5, <2>6, <2>7, <2>8, Zenon DEF TypeOK
<1>2. Cardinality({ id \in {} : [slot |-> id, from |-> id] \in {} }) = 0
  BY FS_EmptySet
<1>3. SuccessMeansDone
  <2>1. last.ops = 0 /\ last.ids = {} /\ replies = {}  BY DEF Init
  <2>2. last.ops = Cardinality({ id \in last.ids : [slot |-> id, from |-> id] \in replies })
    BY <1>2, <2>1
  <2> QED BY <2>1, <2>2 DEF SuccessMeansDone
<1>4. HonestRequest /\ BatchInv /\ NumbersInv /\ NothingLeft
  BY DEF Init, HonestRequest, BatchInv, NumbersInv, NothingLeft, Below, SlotsBelow
<1>5. ExecutedOnce /\ ReplyToOwnCommand /\ SessionWhileHeld
  BY DEF Init, ExecutedOnce, ReplyToOwnCommand, SessionWhileHeld
<1> QED BY <1>1, <1>3, <1>4, <1>5 DEF Inv

(* Appending a newly numbered command to an open batch. *)
LEMMA BatchGrows ==
    ASSUME Inv, NEW op \in {"OPEN", "READ"}, nextId <= MaxId, batch # "NONE",
           add_node_for_pending_rsp([op |-> op, id |-> nextId]),
           UNCHANGED <<serverVars, resultVars>>, nextId' = nextId + 1, UNCHANGED batch
    PROVE  /\ cmdBuf' \in Seq(Command) /\ numCmds' \in Nat /\ pending' \in Seq(Command)
           /\ HonestRequest' /\ BatchInv'
<1> DEFINE c == [op |-> op, id |-> nextId]
<1>1. nextId \in Nat /\ cmdBuf \in Seq(Command) /\ numCmds \in Nat /\ Len(cmdBuf) \in Nat
  BY ClientAssumption DEF Inv, TypeOK
<1>2. c \in Command /\ c.op = op /\ c.id = nextId  BY <1>1 DEF Command, Op
<1>3. cmdBuf = pending /\ numCmds = Len(cmdBuf)  BY DEF Inv, HonestRequest
<1>4. cmdBuf' = Append(cmdBuf, c) /\ pending' = Append(pending, c) /\ numCmds' = numCmds + 1
  BY DEF add_node_for_pending_rsp
<1>5. UNCHANGED <<executed, replies>>  BY DEF serverVars, resultVars
<1> HIDE DEF c
<1>6. /\ cmdBuf' \in Seq(Command) /\ pending' \in Seq(Command) /\ numCmds' \in Nat
      /\ HonestRequest'
  BY <1>1, <1>2, <1>3, <1>4 DEF HonestRequest
<1>7. /\ Ordered(cmdBuf) /\ Below(cmdBuf, nextId) /\ Newer(cmdBuf)
      /\ \A i \in DOMAIN cmdBuf : cmdBuf[i].op \in {"OPEN", "READ"}
  BY DEF Inv, BatchInv
<1>8. /\ DOMAIN cmdBuf' = 1 .. Len(cmdBuf) + 1 /\ DOMAIN cmdBuf = 1 .. Len(cmdBuf)
      /\ \A i \in 1 .. Len(cmdBuf) : cmdBuf'[i] = cmdBuf[i]
      /\ cmdBuf'[Len(cmdBuf) + 1] = c
  BY <1>1, <1>2, <1>4
<1>9. \A i \in DOMAIN cmdBuf : cmdBuf[i].id \in Nat
  <2> SUFFICES ASSUME NEW i \in DOMAIN cmdBuf PROVE cmdBuf[i].id \in Nat
    OBVIOUS
  <2>1. cmdBuf[i] \in Command  BY <1>1
  <2> QED BY <2>1 DEF Command
<1>10. \A i \in DOMAIN cmdBuf' :
          \/ i \in DOMAIN cmdBuf /\ cmdBuf'[i] = cmdBuf[i]
          \/ i = Len(cmdBuf) + 1 /\ cmdBuf'[i] = c
  BY <1>1, <1>8
<1>11. Ordered(cmdBuf')
  <2> SUFFICES ASSUME NEW i \in DOMAIN cmdBuf', NEW j \in DOMAIN cmdBuf', i < j
               PROVE  cmdBuf'[i].id < cmdBuf'[j].id
    BY DEF Ordered
  <2>1. CASE j \in DOMAIN cmdBuf
    <3>1. i \in DOMAIN cmdBuf  BY <1>1, <1>8, <2>1
    <3>2. cmdBuf'[i] = cmdBuf[i] /\ cmdBuf'[j] = cmdBuf[j]  BY <1>8, <2>1, <3>1
    <3>3. cmdBuf[i].id < cmdBuf[j].id  BY <1>7, <2>1, <3>1 DEF Ordered
    <3> QED BY <3>2, <3>3
  <2>2. CASE j = Len(cmdBuf) + 1
    <3>1. i \in DOMAIN cmdBuf  BY <1>1, <1>8, <2>2
    <3>2. cmdBuf'[i] = cmdBuf[i] /\ cmdBuf'[j] = c  BY <1>8, <2>2, <3>1
    <3>3. cmdBuf[i].id < nextId  BY <1>7, <3>1 DEF Below
    <3> QED BY <1>2, <3>2, <3>3
  <2> QED BY <1>10, <2>1, <2>2
<1>12. Below(cmdBuf', nextId')
  <2> SUFFICES ASSUME NEW i \in DOMAIN cmdBuf' PROVE cmdBuf'[i].id < nextId'
    BY DEF Below
  <2>1. CASE i \in DOMAIN cmdBuf /\ cmdBuf'[i] = cmdBuf[i]
    <3>1. cmdBuf[i].id \in Nat /\ cmdBuf[i].id < nextId  BY <1>7, <1>9, <2>1 DEF Below
    <3> QED BY <1>1, <2>1, <3>1
  <2>2. CASE cmdBuf'[i] = c
    BY <1>1, <1>2, <2>2
  <2> QED BY <1>10, <2>1, <2>2
<1>13. Newer(cmdBuf)'
  <2>1. Below(executed, nextId) /\ SlotsBelow(nextId)  BY DEF Inv, NumbersInv
  <2>2. \A i \in DOMAIN cmdBuf' : Below(executed, cmdBuf'[i].id) /\ SlotsBelow(cmdBuf'[i].id)
    BY <1>2, <1>7, <1>10, <2>1 DEF Newer
  <2> QED BY <1>5, <2>2 DEF Newer, Below, SlotsBelow
<1>14. \A i \in DOMAIN cmdBuf' : cmdBuf'[i].op \in {"OPEN", "READ"}
  BY <1>2, <1>7, <1>10
<1>15. BatchInv'  BY <1>11, <1>12, <1>13, <1>14 DEF BatchInv, Ordered, Below
<1> QED BY <1>6, <1>15

(* Resetting the request buffer outside a batch; inside, it stays. *)
LEMMA PrepFacts ==
    ASSUME Inv, prep_priv_cmd_data
    PROVE  /\ cmdBuf' \in Seq(Command) /\ numCmds' \in Nat /\ pending' \in Seq(Command)
           /\ batch = "NONE" => cmdBuf' = <<>> /\ numCmds' = 0 /\ pending' = <<>>
           /\ batch # "NONE" => UNCHANGED <<cmdBuf, numCmds, pending>>
<1>1. CASE batch = "NONE"
  <2>1. cmdBuf' = <<>> /\ numCmds' = 0 /\ pending' = <<>>  BY <1>1 DEF prep_priv_cmd_data
  <2> QED BY <1>1, <2>1
<1>2. CASE batch # "NONE"
  BY <1>2 DEF prep_priv_cmd_data, bufVars, Inv, TypeOK
<1> QED BY <1>1, <1>2

LEMMA StepInv == Inv /\ [Next]_vars => Inv'
<1> SUFFICES ASSUME Inv, [Next]_vars PROVE Inv'
  OBVIOUS
<1> USE ClientAssumption
<1>0. /\ connected \in 0 .. MaxHandles + 1 /\ link \in BOOLEAN /\ gaveUp \in BOOLEAN
      /\ batch \in {"NONE", "CONTINUE", "ABORT"}
      /\ cmdBuf \in Seq(Command) /\ pending \in Seq(Command) /\ numCmds \in Nat
      /\ nextId \in 1 .. MaxId + 1 /\ nextId \in Nat
      /\ SessionWhileHeld
  BY DEF Inv, TypeOK
<1>1. ASSUME UNCHANGED <<cmdBuf, numCmds, pending, batch, nextId, serverVars, resultVars>>
      PROVE  HonestRequest' /\ BatchInv'
  <2>1. UNCHANGED <<executed, replies>>  BY <1>1 DEF serverVars, resultVars
  <2>2. HonestRequest'  BY <1>1 DEF Inv, HonestRequest
  <2>3. BatchInv'  BY <1>1, <2>1 DEF Inv, BatchInv, Ordered, Below, Newer, SlotsBelow
  <2> QED BY <2>2, <2>3
<1>2. ASSUME NEW op \in {"OPEN", "READ"}, command(op) PROVE Inv'
  <2> DEFINE c == [op |-> op, id |-> nextId]
  <2>1. /\ nextId <= MaxId /\ nextId' = nextId + 1
        /\ UNCHANGED connected /\ UNCHANGED link /\ UNCHANGED batch /\ UNCHANGED gaveUp
    BY <1>2 DEF command
  <2>2. CASE batch = "NONE"
    <3>1. transact(link, <<c>>, 1, <<c>>, "NONE")  BY <1>2, <2>2 DEF command
    <3>2. op \in Op /\ op # "TERM"  BY DEF Op
    <3>3. /\ cmdBuf' \in Seq(Command) /\ numCmds' \in Nat /\ pending' \in Seq(Command)
          /\ Results(nextId + 1) /\ nextId + 1 \in 1 .. MaxId + 1
          /\ session /\ op # "TERM" => session'
      BY <2>1, <3>1, <3>2, OneCommand
    <3>4. SessionWhileHeld'  BY <1>0, <2>1, <3>2, <3>3 DEF SessionWhileHeld, Results
    <3> QED BY <1>0, <2>1, <2>2, <3>3, <3>4, AfterTransaction
  <2>3. CASE batch # "NONE"
    <3>1. add_node_for_pending_rsp(c) /\ UNCHANGED <<serverVars, resultVars>>
      BY <1>2, <2>3 DEF command
    <3>2. /\ cmdBuf' \in Seq(Command) /\ numCmds' \in Nat /\ pending' \in Seq(Command)
          /\ HonestRequest' /\ BatchInv'
      BY <2>1, <2>3, <3>1, BatchGrows
    <3>3. nextId' \in 1 .. MaxId + 1 /\ nextId <= nextId'  BY <1>0, <2>1
    <3> QED BY <1>0, <2>1, <3>1, <3>2, <3>3, WithoutTransaction
  <2> QED BY <2>2, <2>3
<1>3. ASSUME commandTooLarge PROVE Inv'
  <2>1. /\ gaveUp' = (batch # "NONE") /\ prep_priv_cmd_data
        /\ UNCHANGED <<connected, link, batch, nextId>> /\ UNCHANGED <<serverVars, resultVars>>
    BY <1>3 DEF commandTooLarge
  <2>2. gaveUp' \in BOOLEAN  BY <2>1, Zenon
  <2>3. /\ cmdBuf' \in Seq(Command) /\ numCmds' \in Nat /\ pending' \in Seq(Command)
        /\ batch # "NONE" => UNCHANGED <<cmdBuf, numCmds, pending>>
    BY <2>1, PrepFacts
  <2>4. HonestRequest' /\ BatchInv'
    <3>1. CASE batch = "NONE"  BY <2>1, <3>1 DEF HonestRequest, BatchInv
    <3>2. CASE batch # "NONE"  BY <1>1, <2>1, <2>3, <3>2
    <3> QED BY <3>1, <3>2
  <2>5. nextId' \in 1 .. MaxId + 1 /\ nextId <= nextId'  BY <1>0, <2>1
  <2> QED BY <1>0, <2>1, <2>2, <2>3, <2>4, <2>5, WithoutTransaction
<1>4. ASSUME cswp_init PROVE Inv'
  <2>1. batch = "NONE" /\ batch' = "NONE" /\ gaveUp' = gaveUp  BY <1>4 DEF cswp_init
  <2>2. CASE connected > 0
    <3>1. /\ connected < MaxHandles /\ connected' = connected + 1
          /\ UNCHANGED link /\ UNCHANGED bufVars /\ UNCHANGED nextId
          /\ UNCHANGED <<serverVars, resultVars>>
      BY <1>4, <2>2 DEF cswp_init
    <3>2. HonestRequest' /\ BatchInv'  BY <2>1 DEF HonestRequest, BatchInv
    <3>3. connected' \in 0 .. MaxHandles + 1 /\ nextId <= nextId' /\ nextId' \in 1 .. MaxId + 1
      BY <1>0, <3>1
    <3> QED BY <1>0, <2>1, <2>2, <3>1, <3>2, <3>3, WithoutTransaction DEF bufVars
  <2>3. CASE ~(connected > 0)
    <3> DEFINE c == [op |-> "INIT", id |-> nextId]
    <3>1. /\ nextId <= MaxId /\ nextId' = nextId + 1
          /\ transact(TRUE, <<c>>, 1, <<c>>, "NONE")
          /\ connected' = IF last'.res = "SUCCESS" THEN 1 ELSE 0
          /\ link' = (last'.res = "SUCCESS")
      BY <1>4, <2>3 DEF cswp_init
    <3>2. "INIT" \in Op  BY DEF Op
    <3>3. /\ cmdBuf' \in Seq(Command) /\ numCmds' \in Nat /\ pending' \in Seq(Command)
          /\ Results(nextId + 1) /\ nextId + 1 \in 1 .. MaxId + 1
          /\ ~doubtful' /\ last'.res = "SUCCESS" => session'
      BY <3>1, <3>2, OneCommand
    <3>4. SessionWhileHeld'  BY <3>1, <3>3 DEF SessionWhileHeld
    <3>5. connected' \in 0 .. MaxHandles + 1  BY <3>1
    <3>6. link' \in BOOLEAN  BY <3>1, Zenon
    <3> QED BY <1>0, <2>1, <3>1, <3>3, <3>4, <3>5, <3>6, AfterTransaction
  <2> QED BY <2>2, <2>3
<1>5. ASSUME cswp_term PROVE Inv'
  <2>1. batch = "NONE" /\ batch' = "NONE" /\ gaveUp' = gaveUp  BY <1>5 DEF cswp_term
  <2>2. CASE connected > 1
    <3>1. /\ connected' = connected - 1 /\ prep_priv_cmd_data
          /\ UNCHANGED link /\ UNCHANGED nextId /\ UNCHANGED <<serverVars, resultVars>>
      BY <1>5, <2>2 DEF cswp_term, StillHeld
    <3>2. HonestRequest' /\ BatchInv'  BY <2>1 DEF HonestRequest, BatchInv
    <3>3. cmdBuf' \in Seq(Command) /\ numCmds' \in Nat /\ pending' \in Seq(Command)
      BY <3>1, PrepFacts
    <3>4. /\ connected' \in 0 .. MaxHandles + 1 /\ nextId <= nextId' /\ nextId' \in 1 .. MaxId + 1
          /\ connected > 0
      BY <1>0, <2>2, <3>1
    <3> QED BY <1>0, <2>1, <3>1, <3>2, <3>3, <3>4, WithoutTransaction
  <2>3. CASE ~(connected > 1)
    <3> DEFINE c == [op |-> "TERM", id |-> nextId]
    <3>1. /\ nextId <= MaxId /\ nextId' = nextId + 1
          /\ transact(link \/ connected = 0, <<c>>, 1, <<c>>, "NONE")
          /\ connected' = IF connected > 0 THEN connected - 1 ELSE 0
          /\ link' = FALSE
      BY <1>5, <2>3 DEF cswp_term, StillHeld
    <3>2. "TERM" \in Op  BY DEF Op
    <3>3. /\ cmdBuf' \in Seq(Command) /\ numCmds' \in Nat /\ pending' \in Seq(Command)
          /\ Results(nextId + 1) /\ nextId + 1 \in 1 .. MaxId + 1
      BY <3>1, <3>2, OneCommand
    <3>4. connected' = 0  BY <1>0, <2>3, <3>1
    <3>5. SessionWhileHeld'  BY <3>4 DEF SessionWhileHeld
    <3>6. connected' \in 0 .. MaxHandles + 1  BY <3>4
    <3>7. link' \in BOOLEAN  BY <3>1, Zenon
    <3> QED BY <1>0, <2>1, <3>1, <3>3, <3>5, <3>6, <3>7, AfterTransaction
  <2> QED BY <2>2, <2>3
<1>6. ASSUME termCannotConnect PROVE Inv'
  <2>1. /\ batch = "NONE" /\ prep_priv_cmd_data
        /\ UNCHANGED <<connected, link, batch, gaveUp, nextId>>
        /\ UNCHANGED <<serverVars, resultVars>>
    BY <1>6 DEF termCannotConnect
  <2>2. HonestRequest' /\ BatchInv'  BY <2>1 DEF HonestRequest, BatchInv
  <2>3. cmdBuf' \in Seq(Command) /\ numCmds' \in Nat /\ pending' \in Seq(Command)
    BY <2>1, PrepFacts
  <2>4. nextId' \in 1 .. MaxId + 1 /\ nextId <= nextId'  BY <1>0, <2>1
  <2> QED BY <1>0, <2>1, <2>2, <2>3, <2>4, WithoutTransaction
<1>7. ASSUME setup_cdebug \/ disconnect_transport PROVE Inv'
  <2>1. /\ link' \in BOOLEAN /\ UNCHANGED <<connected, batch, gaveUp, nextId>>
        /\ UNCHANGED <<cmdBuf, numCmds, pending>> /\ UNCHANGED <<serverVars, resultVars>>
    BY <1>7 DEF setup_cdebug, disconnect_transport, bufVars
  <2>2. HonestRequest' /\ BatchInv'  BY <1>1, <2>1
  <2>3. nextId' \in 1 .. MaxId + 1 /\ nextId <= nextId'  BY <1>0, <2>1
  <2> QED BY <1>0, <2>1, <2>2, <2>3, WithoutTransaction
<1>8. ASSUME NEW mode \in {"CONTINUE", "ABORT"}, cswp_batch_begin(mode) PROVE Inv'
  <2>1. /\ batch' = mode /\ prep_priv_cmd_data
        /\ UNCHANGED <<connected, link, gaveUp, nextId>> /\ UNCHANGED <<serverVars, resultVars>>
    BY <1>8 DEF cswp_batch_begin
  <2>2. /\ cmdBuf' \in Seq(Command) /\ numCmds' \in Nat /\ pending' \in Seq(Command)
        /\ batch = "NONE" => cmdBuf' = <<>> /\ numCmds' = 0 /\ pending' = <<>>
        /\ batch # "NONE" => UNCHANGED <<cmdBuf, numCmds, pending>>
    BY <2>1, PrepFacts
  <2>3. HonestRequest' /\ BatchInv'
    <3>1. CASE batch = "NONE"
      BY <2>2, <3>1 DEF HonestRequest, BatchInv, Ordered, Below, Newer
    <3>2. CASE batch # "NONE"
      <4>1. UNCHANGED <<executed, replies, cmdBuf, numCmds, pending, nextId>>
        BY <2>1, <2>2, <3>2 DEF serverVars, resultVars
      <4> QED BY <3>2, <4>1 DEF Inv, HonestRequest, BatchInv, Ordered, Below, Newer, SlotsBelow
    <3> QED BY <3>1, <3>2
  <2>4. nextId' \in 1 .. MaxId + 1 /\ nextId <= nextId'  BY <1>0, <2>1
  <2> QED BY <1>0, <2>1, <2>2, <2>3, <2>4, WithoutTransaction
<1>9. ASSUME cswp_batch_end PROVE Inv'
  <2>1. /\ batch # "NONE" /\ batch' = "NONE"
        /\ UNCHANGED <<connected, link, gaveUp, nextId>>
    BY <1>9 DEF cswp_batch_end
  <2>2. CASE numCmds > 0
    <3>1. transact(link, cmdBuf, numCmds, pending, batch)  BY <1>9, <2>2 DEF cswp_batch_end
    <3>2. pending = cmdBuf /\ numCmds = Len(cmdBuf)  BY <2>1 DEF Inv, HonestRequest
    <3>3. transact(link, cmdBuf, Len(cmdBuf), cmdBuf, batch)  BY <3>1, <3>2
    <3>4. /\ Ordered(cmdBuf) /\ Below(cmdBuf, nextId) /\ Newer(cmdBuf)
          /\ \A i \in DOMAIN cmdBuf : cmdBuf[i].op \in {"OPEN", "READ"}
          /\ Below(executed, nextId) /\ SlotsBelow(nextId)
      BY <2>1 DEF Inv, BatchInv, NumbersInv
    <3>5. batch \in Modes  BY <1>0 DEF Modes
    <3>6. /\ cmdBuf' = cmdBuf /\ numCmds' = Len(cmdBuf) /\ pending' = <<>>
          /\ Results(nextId)
          /\ session /\ (\A i \in DOMAIN cmdBuf : cmdBuf[i].op # "TERM") => session'
      BY <1>0, <3>3, <3>4, <3>5, TransactFacts DEF Inv
    <3>7. session => session'  BY <3>4, <3>6
    <3>8. SessionWhileHeld'  BY <1>0, <2>1, <3>6, <3>7 DEF SessionWhileHeld, Results
    <3>9. cmdBuf' \in Seq(Command) /\ numCmds' \in Nat /\ pending' \in Seq(Command)
      BY <1>0, <3>6
    <3> QED BY <1>0, <2>1, <3>6, <3>8, <3>9, AfterTransaction
  <2>3. CASE ~(numCmds > 0)
    <3>1. UNCHANGED <<cmdBuf, numCmds, pending>> /\ UNCHANGED <<serverVars, resultVars>>
      BY <1>9, <2>3 DEF cswp_batch_end, bufVars
    <3>2. HonestRequest' /\ BatchInv'  BY <2>1 DEF HonestRequest, BatchInv
    <3>3. nextId' \in 1 .. MaxId + 1 /\ nextId <= nextId'  BY <1>0, <2>1
    <3> QED BY <1>0, <2>1, <3>1, <3>2, <3>3, WithoutTransaction
  <2> QED BY <2>2, <2>3
<1>10. ASSUME UNCHANGED vars PROVE Inv'
  <2>1. /\ UNCHANGED <<connected, link, batch, gaveUp, nextId>>
        /\ UNCHANGED <<cmdBuf, numCmds, pending>> /\ UNCHANGED <<serverVars, resultVars>>
    BY <1>10 DEF vars, bufVars
  <2>2. HonestRequest' /\ BatchInv'  BY <1>1, <2>1
  <2>3. nextId' \in 1 .. MaxId + 1 /\ nextId <= nextId'  BY <1>0, <2>1
  <2> QED BY <1>0, <2>1, <2>2, <2>3, WithoutTransaction
<1> QED BY <1>2, <1>3, <1>4, <1>5, <1>6, <1>7, <1>8, <1>9, <1>10 DEF Next

LEMMA Invariance == Spec => []Inv
BY InitInv, StepInv, PTL DEF Spec
-----------------------------------------------------------------------------
(* The client's private data stay well typed, and cswp_init() and          *)
(* cswp_term() keep the handle count in its range.                         *)
THEOREM TypeCorrect == Spec => []TypeOK
<1>1. Inv => TypeOK  BY DEF Inv
<1> QED BY <1>1, Invariance, PTL

(* Inside a batch num_cmds, the encoded commands and the list of pending   *)
(* responses describe the same commands.                                   *)
THEOREM RequestsHonest == Spec => []HonestRequest
<1>1. Inv => HonestRequest  BY DEF Inv
<1> QED BY <1>1, Invariance, PTL

(* No command is executed twice and none overtakes an older one, whatever  *)
(* sends and receives fail.                                                *)
THEOREM NeverSentAgain == Spec => []ExecutedOnce
<1>1. Inv => ExecutedOnce  BY DEF Inv
<1> QED BY <1>1, Invariance, PTL

(* Until a send or receive fails, verify_response() fills a caller's       *)
(* buffers only from the response to its own command.                      *)
THEOREM RepliesMatched == Spec => []ReplyToOwnCommand
<1>1. Inv => ReplyToOwnCommand  BY DEF Inv
<1> QED BY <1>1, Invariance, PTL

(* Success of a call or a batch means that each of its commands was        *)
(* executed, and opsCompleted counts the answered ones.                    *)
THEOREM SuccessHonest == Spec => []SuccessMeansDone
<1>1. Inv => SuccessMeansDone  BY DEF Inv
<1> QED BY <1>1, Invariance, PTL

(* The reference count of cswp_init() and cswp_term() keeps the session    *)
(* open while any handle is held.                                          *)
THEOREM SessionHeld == Spec => []SessionWhileHeld
<1>1. Inv => SessionWhileHeld  BY DEF Inv
<1> QED BY <1>1, Invariance, PTL
=============================================================================
