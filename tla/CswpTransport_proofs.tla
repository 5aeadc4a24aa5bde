------------------------ MODULE CswpTransport_proofs ------------------------
(***************************************************************************)
(* Proofs about CswpTransport, for any number of commands, async messages  *)
(* and connect calls: types, the read thread never outlives the device,    *)
(* requests and responses stay in step until something fails, and both     *)
(* streams stay in order always.                                           *)
(***************************************************************************)
EXTENDS CswpTransport, SequenceFacts, TLAPS

(* Every variable keeps its type. *)
THEOREM TypeCorrect == Spec => []TypeOK
<1>1. Init => TypeOK
  <2>1. Init => running \in BOOLEAN /\ joinable \in BOOLEAN /\ doubtful \in BOOLEAN  BY Zenon DEF Init
  <2>2. Init => /\ respQ \in Seq(Nat) /\ asyncQ \in Seq(Nat) /\ cmds \in Seq(Nat)
                /\ wire \in Seq(Message) /\ got \in Seq(Reply) /\ asyncGot \in Seq(Nat)
    BY DEF Init
  <2>3. Init => /\ usb \in {"none", "failed", "open", "closed"}
                /\ lpc \in {"none", "loop", "submit", "read"}
                /\ pc \in {"idle", "join", "recv", "wait", "terminated"}
                /\ lastSent \in Nat /\ connects \in Nat /\ asyncs \in Nat
    BY DEF Init
  <2> QED BY <2>1, <2>2, <2>3 DEF TypeOK
<1>2. TypeOK /\ [Next]_vars => TypeOK'
  <2> SUFFICES ASSUME TypeOK, [Next]_vars PROVE TypeOK'
    OBVIOUS
  <2> USE DEF TypeOK
  <2>1. CASE connect
    <3>1. (running \in BOOLEAN /\ joinable \in BOOLEAN /\ doubtful \in BOOLEAN)'
      BY <2>1, Zenon DEF connect
    <3> QED BY <2>1, <3>1 DEF connect, serverVars
  <2>2. CASE connectThrows  BY <2>2 DEF connectThrows, serverVars, listenVars
  <2>3. CASE connectNoThread
    <3>1. (running \in BOOLEAN /\ joinable \in BOOLEAN /\ doubtful \in BOOLEAN)'
      BY <2>3, Zenon DEF connectNoThread, clientVars
    <3> QED BY <2>3, <3>1 DEF connectNoThread, serverVars, clientVars
  <2>4. CASE disconnect  BY <2>4 DEF disconnect, Stop, serverVars
  <2>5. CASE Join  BY <2>5 DEF Join, serverVars, listenVars
  <2>6. ASSUME NEW s \in WriteStatus, send(s) PROVE TypeOK'
    <3>1. lastSent' \in Nat  BY <2>6 DEF send
    <3>2. cmds' \in Seq(Nat)
      <4>1. Append(cmds, lastSent') \in Seq(Nat)  BY <3>1
      <4> QED BY <2>6, <4>1 DEF send
    <3> QED BY <2>6, <3>1, <3>2 DEF send, listenVars
  <2>7. CASE receive
    <3>1. UNCHANGED <<usb, running, lpc, joinable, asyncQ, lastSent, asyncGot, cmds, wire, asyncs, connects>>
      BY <2>7 DEF receive, listenVars, serverVars
    <3>2. respQ' \in Seq(Nat)  
      <4>1. CASE respQ # <<>> /\ respQ' = Tail(respQ)  BY <4>1
      <4> QED BY <2>7, <4>1 DEF receive, Fail
    <3>3. got' \in Seq(Reply)
      <4>1. CASE respQ # <<>> /\ got' = Append(got, [id |-> Head(respQ), for |-> lastSent])
        <5>1. [id |-> Head(respQ), for |-> lastSent] \in Reply  BY <4>1 DEF Reply
        <5> QED BY <4>1, <5>1
      <4> QED BY <2>7, <4>1 DEF receive, Fail
    <3>4. pc' \in {"idle", "wait"} /\ doubtful' \in BOOLEAN  BY <2>7 DEF receive, Fail
    <3> QED BY <3>1, <3>2, <3>3, <3>4
  <2>8. CASE Notified  BY <2>8 DEF Notified, listenVars, serverVars
  <2>9. CASE ReceiveTimeout  BY <2>9 DEF ReceiveTimeout, Deadline, Fail, listenVars, serverVars
  <2>10. CASE receive_async
    <3>1. Head(asyncQ) \in Nat /\ asyncQ' \in Seq(Nat)  BY <2>10 DEF receive_async
    <3> QED BY <2>10, <3>1 DEF receive_async, listenVars, serverVars
  <2>11. CASE ListenTest  BY <2>11 DEF ListenTest, clientVars, serverVars
  <2>12. CASE ListenSubmit  BY <2>12 DEF ListenSubmit, clientVars, serverVars
  <2>13. CASE ListenData
    <3>1. Head(wire) \in Message /\ wire' \in Seq(Message)  BY <2>13 DEF ListenData
    <3>2. Head(wire).id \in Nat  BY <3>1 DEF Message
    <3>3. respQ' \in Seq(Nat) /\ asyncQ' \in Seq(Nat)
      <4>1. Append(respQ, Head(wire).id) \in Seq(Nat) /\ Append(asyncQ, Head(wire).id) \in Seq(Nat)
        BY <3>2
      <4> QED BY <2>13, <4>1 DEF ListenData, Sort
    <3> QED BY <2>13, <3>1, <3>3 DEF ListenData, clientVars
  <2>14. CASE ListenNothing
    <3>1. wire' \in Seq(Message)
      <4>1. CASE wire # <<>> /\ wire' = Tail(wire)  BY <4>1
      <4> QED BY <2>14, <4>1 DEF ListenNothing
    <3> QED BY <2>14, <3>1 DEF ListenNothing, clientVars
  <2>15. CASE ListenError  BY <2>15 DEF ListenError, clientVars, serverVars
  <2>16. CASE Answer
    <3>1. Head(cmds) \in Nat /\ cmds' \in Seq(Nat)  BY <2>16 DEF Answer
    <3>2. [kind |-> "rsp", id |-> Head(cmds)] \in Message  BY <3>1 DEF Message
    <3> QED BY <2>16, <3>1, <3>2 DEF Answer, listenVars, clientVars
  <2>17. CASE Ignore
    <3>1. cmds' \in Seq(Nat)  BY <2>17 DEF Ignore
    <3> QED BY <2>17, <3>1 DEF Ignore, listenVars, clientVars
  <2>18. CASE EmitAsync
    <3>1. asyncs' \in Nat  BY <2>18 DEF EmitAsync
    <3>2. [kind |-> "async", id |-> asyncs'] \in Message  BY <3>1 DEF Message
    <3> QED BY <2>18, <3>1, <3>2 DEF EmitAsync, listenVars, clientVars
  <2>19. CASE UNCHANGED vars
    BY <2>19 DEF vars, listenVars, clientVars, serverVars
  <2> QED BY <2>1, <2>2, <2>3, <2>4, <2>5, <2>6, <2>7, <2>8, <2>9, <2>10, <2>11, <2>12,
             <2>13, <2>14, <2>15, <2>16, <2>17, <2>18, <2>19
          DEF Next, Client, listen, Server
<1> QED BY <1>1, <1>2, PTL DEF Spec

-----------------------------------------------------------------------------
(* ListenerGone alone is not inductive: disconnect() must know that a read *)
(* thread it does not wait for has left.                                   *)
ListenerInv ==
    /\ ListenerGone
    /\ running \/ pc \in {"join", "terminated"} \/ lpc = "none"
    /\ running => lpc # "none" \/ pc = "terminated"

(* The read thread never uses a device that disconnect() has closed. *)
THEOREM ListenerNeverOutlivesDevice == Spec => []ListenerGone
<1>1. Init => ListenerInv
  BY DEF Init, ListenerInv, ListenerGone
<1>2. ListenerInv /\ [Next]_vars => ListenerInv'
  <2> SUFFICES ASSUME ListenerInv, [Next]_vars PROVE ListenerInv'
    OBVIOUS
  <2> USE DEF ListenerInv, ListenerGone
  <2>1. CASE connect  BY <2>1 DEF connect
  <2>2. CASE connectThrows  BY <2>2 DEF connectThrows, listenVars
  <2>3. CASE connectNoThread  BY <2>3 DEF connectNoThread, clientVars
  <2>4. CASE disconnect  BY <2>4 DEF disconnect, Stop
  <2>5. CASE Join  BY <2>5 DEF Join, listenVars
  <2>6. ASSUME NEW s \in WriteStatus, send(s) PROVE ListenerInv'
    BY <2>6 DEF send, listenVars
  <2>7. CASE receive  BY <2>7 DEF receive, Fail, listenVars
  <2>8. CASE Notified  BY <2>8 DEF Notified, listenVars
  <2>9. CASE ReceiveTimeout  BY <2>9 DEF ReceiveTimeout, Deadline, Fail, listenVars
  <2>10. CASE receive_async  BY <2>10 DEF receive_async, listenVars
  <2>11. CASE listen
    BY <2>11 DEF listen, ListenTest, ListenSubmit, ListenData, ListenNothing, ListenError, clientVars
  <2>12. CASE Server
    BY <2>12 DEF Server, Answer, Ignore, EmitAsync, listenVars, clientVars
  <2>13. CASE UNCHANGED vars  BY <2>13 DEF vars, listenVars, clientVars
  <2> QED BY <2>1, <2>2, <2>3, <2>4, <2>5, <2>6, <2>7, <2>8, <2>9, <2>10, <2>11, <2>12, <2>13
          DEF Next, Client
<1>3. ListenerInv => ListenerGone  BY DEF ListenerInv
<1> QED BY <1>1, <1>2, <1>3, PTL DEF Spec

-----------------------------------------------------------------------------
(* What Aligned says of wire, after a step on it. *)
LEMMA WireAppend ==
    ASSUME NEW m, wire \in Seq(Message), wire' = Append(wire, m), UNCHANGED lastSent
    PROVE  /\ m.kind # "rsp" /\ NoRsp => NoRsp'
           /\ m.kind # "rsp" /\ OneRsp => OneRsp'
           /\ m.kind = "rsp" /\ m.id = lastSent /\ NoRsp => OneRsp'
<1>1. DOMAIN wire' = 1 .. Len(wire) + 1 /\ DOMAIN wire = 1 .. Len(wire) /\ Len(wire) \in Nat
  OBVIOUS
<1>2. \A i \in 1 .. Len(wire) : wire'[i] = wire[i]  OBVIOUS
<1>3. wire'[Len(wire) + 1] = m  OBVIOUS
<1> QED BY <1>1, <1>2, <1>3 DEF NoRsp, OneRsp

(* listen() takes the oldest message off the wire. *)
LEMMA WireTail ==
    ASSUME wire \in Seq(Message), wire # <<>>, wire' = Tail(wire), UNCHANGED lastSent
    PROVE  /\ NoRsp => NoRsp'
           /\ OneRsp => OneRsp'
           /\ OneRsp /\ Head(wire).kind = "rsp" => NoRsp' /\ Head(wire).id = lastSent
<1>1. DOMAIN wire' = 1 .. Len(wire) - 1 /\ DOMAIN wire = 1 .. Len(wire) /\ Len(wire) \in Nat \ {0}
  OBVIOUS
<1>2. \A i \in 1 .. Len(wire) - 1 : wire'[i] = wire[i + 1] /\ i + 1 \in 1 .. Len(wire) /\ i + 1 # 1
  OBVIOUS
<1>3. Head(wire) = wire[1] /\ 1 \in 1 .. Len(wire)  BY <1>1
<1> QED BY <1>1, <1>2, <1>3 DEF NoRsp, OneRsp

InStepInv == InStep /\ Aligned

(* Requests and responses stay in step until a send or a receive fails.  *)
THEOREM ResponsesInStep == Spec => []InStep
<1>1. Init => InStepInv
  BY DEF Init, InStepInv, InStep, Aligned, Quiet, NoRsp
<1>2. TypeOK /\ InStepInv /\ [Next]_vars => InStepInv'
  <2> SUFFICES ASSUME TypeOK, InStepInv, [Next]_vars PROVE InStepInv'
    OBVIOUS
  <2> USE DEF InStepInv
  <2>0. ASSUME UNCHANGED <<got, doubtful>> PROVE InStep'  BY <2>0 DEF InStep
  <2>1. ASSUME UNCHANGED <<cmds, respQ, wire, lastSent, doubtful>>,
               pc' \in {"recv", "wait"} \/ pc \notin {"recv", "wait"}
        PROVE  Aligned'
    BY <2>1 DEF Aligned, Quiet, OneReply, NoRsp, OneRsp
  <2>2. ASSUME doubtful' = TRUE PROVE InStepInv'
    BY <2>2 DEF InStep, Aligned
  <2>3. CASE connect \/ connectThrows \/ connectNoThread \/ disconnect \/ Join \/ receive_async \/ Notified
             \/ ListenTest \/ ListenSubmit \/ ListenError
    BY <2>0, <2>1, <2>3
    DEF connect, connectThrows, connectNoThread, disconnect, Stop, Join, receive_async, Notified,
        ListenTest, ListenSubmit, ListenError, clientVars, serverVars, listenVars
  <2>4. ASSUME NEW s \in WriteStatus, send(s) PROVE InStepInv'
    <3>1. CASE doubtful' = TRUE  BY <2>2, <3>1
    <3>2. CASE /\ cmds' = Append(cmds, lastSent') /\ pc' = "recv" /\ UNCHANGED doubtful
      <4>1. UNCHANGED <<got, respQ, wire>> /\ pc = "idle"  BY <2>4 DEF send
      <4>2. CASE doubtful  BY <2>2, <3>2, <4>2 DEF Aligned, InStep
      <4>3. CASE ~doubtful
        <5>1. Quiet  BY <4>1, <4>3 DEF Aligned, OneReply
        <5>2. cmds' = <<lastSent'>>  BY <3>2, <5>1 DEF Quiet
        <5>3. OneReply'  BY <3>2, <4>1, <5>1, <5>2 DEF OneReply, Quiet, NoRsp
        <5> QED BY <2>0, <3>2, <4>1, <5>3 DEF Aligned
      <4> QED BY <4>2, <4>3
    <3> QED BY <2>4, <3>1, <3>2 DEF send
  <2>5. CASE receive
    <3>1. CASE /\ running /\ respQ # <<>>
               /\ got' = Append(got, [id |-> Head(respQ), for |-> lastSent])
               /\ respQ' = Tail(respQ) /\ pc' = "idle" /\ UNCHANGED doubtful
      <4>1. UNCHANGED <<cmds, wire, lastSent>>  BY <2>5 DEF receive, serverVars
      <4>2. CASE doubtful  BY <3>1, <4>2 DEF Aligned, InStep
      <4>3. CASE ~doubtful
        <5>1. respQ = <<lastSent>> /\ cmds = <<>> /\ NoRsp
          BY <3>1, <4>3 DEF Aligned, Quiet, OneReply
        <5>2. Head(respQ) = lastSent /\ respQ' = <<>>  BY <3>1, <5>1
        <5>3. Quiet'  BY <4>1, <5>1, <5>2 DEF Quiet, NoRsp
        <5>4. InStep'
          <6> DEFINE g == [id |-> lastSent, for |-> lastSent]
          <6>1. got' = Append(got, g) /\ got \in Seq(Reply)  BY <3>1, <5>2 DEF TypeOK
          <6>2. g.id = g.for  OBVIOUS
          <6> HIDE DEF g
          <6>3. \A i \in DOMAIN got : got[i].id = got[i].for  BY <4>3 DEF InStep
          <6>4. DOMAIN got' = 1 .. Len(got) + 1 /\ Len(got) \in Nat /\ got'[Len(got) + 1] = g
                /\ \A i \in 1 .. Len(got) : got'[i] = got[i]
            BY <6>1
          <6> QED BY <6>1, <6>2, <6>3, <6>4 DEF InStep
        <5> QED BY <5>3, <5>4 DEF Aligned
      <4> QED BY <4>2, <4>3
    <3>2. CASE Fail  BY <2>2, <3>2 DEF Fail
    <3>3. CASE pc' = "wait" /\ UNCHANGED <<respQ, got, doubtful>>
      BY <2>0, <2>1, <2>5, <3>3 DEF receive, serverVars
    <3> QED BY <2>5, <3>1, <3>2, <3>3 DEF receive
  <2>6. CASE ReceiveTimeout  BY <2>2, <2>6 DEF ReceiveTimeout, Deadline, Fail
  <2>7. CASE ListenData \/ ListenNothing
    <3>1. UNCHANGED <<pc, lastSent, got, doubtful, cmds>>
      BY <2>7 DEF ListenData, ListenNothing, clientVars
    <3>2. CASE UNCHANGED <<wire, respQ>>
      BY <2>0, <2>1, <3>1, <3>2
    <3>3. ASSUME wire # <<>>, wire' = Tail(wire) PROVE Aligned'
      <4>1. CASE UNCHANGED respQ
        BY <3>1, <3>3, <4>1, WireTail DEF TypeOK, Aligned, Quiet, OneReply
      <4>2. CASE Head(wire).kind # "async" /\ respQ' = Append(respQ, Head(wire).id)
        <5>1. Head(wire) \in Message  BY <3>3 DEF TypeOK
        <5>2. Head(wire).kind = "rsp"  BY <4>2, <5>1 DEF Message
        <5>3. ~NoRsp
          <6>1. 1 \in DOMAIN wire /\ Head(wire) = wire[1]  BY <3>3 DEF TypeOK
          <6> QED BY <5>2, <6>1 DEF NoRsp
        <5>4. CASE ~doubtful
          <6>1. pc \in {"recv", "wait"} /\ cmds = <<>> /\ respQ = <<>> /\ OneRsp
            BY <5>3, <5>4 DEF Aligned, Quiet, OneReply
          <6>2. NoRsp' /\ Head(wire).id = lastSent
            BY <3>1, <3>3, <5>2, <6>1, WireTail DEF TypeOK
          <6>3. respQ' = <<lastSent'>>  BY <3>1, <4>2, <6>1, <6>2
          <6> QED BY <3>1, <6>1, <6>2, <6>3 DEF Aligned, OneReply
        <5> QED BY <3>1, <5>4 DEF Aligned
      <4> QED BY <2>7, <4>1, <4>2 DEF ListenData, ListenNothing, Sort
    <3> QED BY <2>0, <2>7, <3>1, <3>2, <3>3 DEF ListenData, ListenNothing
  <2>8. CASE Answer
    <3> DEFINE m == [kind |-> "rsp", id |-> Head(cmds)]
    <3>1. UNCHANGED <<pc, lastSent, got, doubtful, respQ>> /\ cmds # <<>>
          /\ wire' = Append(wire, m) /\ cmds' = Tail(cmds)
      BY <2>8 DEF Answer, clientVars
    <3>2. CASE ~doubtful
      <4>1. pc \in {"recv", "wait"} /\ cmds = <<lastSent>> /\ respQ = <<>> /\ NoRsp
        BY <3>1, <3>2 DEF Aligned, Quiet, OneReply
      <4>2. m.kind = "rsp" /\ m.id = lastSent /\ cmds' = <<>>  BY <3>1, <4>1
      <4>3. OneRsp'  BY <3>1, <4>1, <4>2, WireAppend DEF TypeOK
      <4> QED BY <2>0, <3>1, <4>1, <4>2, <4>3 DEF Aligned, OneReply
    <3> QED BY <2>0, <3>1, <3>2 DEF Aligned
  <2>9. CASE Ignore
    <3>1. UNCHANGED <<pc, lastSent, got, doubtful, respQ, wire>> /\ cmds # <<>> /\ cmds' = Tail(cmds)
      BY <2>9 DEF Ignore, clientVars
    <3>2. CASE ~doubtful
      <4>1. cmds = <<lastSent>> /\ respQ = <<>> /\ NoRsp
        BY <3>1, <3>2 DEF Aligned, Quiet, OneReply
      <4>2. cmds' = <<>>  BY <3>1, <4>1
      <4> QED BY <2>0, <3>1, <4>1, <4>2 DEF Aligned, Quiet, NoRsp
    <3> QED BY <2>0, <3>1, <3>2 DEF Aligned
  <2>10. CASE EmitAsync
    <3> DEFINE m == [kind |-> "async", id |-> asyncs']
    <3>1. UNCHANGED <<pc, lastSent, got, doubtful, respQ, cmds>> /\ wire' = Append(wire, m)
      BY <2>10 DEF EmitAsync, clientVars
    <3>2. m.kind # "rsp"  OBVIOUS
    <3> HIDE DEF m
    <3>3. (NoRsp => NoRsp') /\ (OneRsp => OneRsp')  BY <3>1, <3>2, WireAppend DEF TypeOK
    <3>4. Aligned'  BY <3>1, <3>3 DEF Aligned, Quiet, OneReply
    <3> QED BY <2>0, <3>1, <3>4
  <2>11. CASE UNCHANGED vars
    BY <2>0, <2>1, <2>11 DEF vars, clientVars, serverVars
  <2> QED BY <2>3, <2>4, <2>5, <2>6, <2>7, <2>8, <2>9, <2>10, <2>11
          DEF Next, Client, listen, Server
<1>3. InStepInv => InStep  BY DEF InStepInv
<1> QED BY <1>1, <1>2, <1>3, TypeCorrect, PTL DEF Spec
-----------------------------------------------------------------------------
(***************************************************************************)
(* Order.  A message passes four stages: sent (commands), on the wire,     *)
(* queued, returned.  Every number in a stage is below every number in an  *)
(* earlier one, and none exceeds the last number given out.                *)
(***************************************************************************)
Stages(G, R, W, C, top) ==
    /\ Below(G, R \cup W \cup C) /\ Below(R, W \cup C) /\ Below(W, C)
    /\ \A x \in G \cup R \cup W \cup C : x \in Nat /\ x <= top

(* A stage loses elements. *)
LEMMA StagesLose ==
    ASSUME NEW G, NEW R, NEW W, NEW C, NEW W2, NEW C2, NEW top, Stages(G, R, W, C, top),
           W2 \subseteq W, C2 \subseteq C
    PROVE  Stages(G, R, W2, C2, top)
BY DEF Stages, Below

(* The least element of a stage goes on to the next stage. *)
LEMMA StagesPass ==
    ASSUME NEW G, NEW R, NEW W, NEW C, NEW S2, NEW x, NEW top, Stages(G, R, W, C, top),
           Below({x}, S2)
    PROVE  /\ x \in R /\ S2 \subseteq R => Stages(G \cup {x}, S2, W, C, top)
           /\ x \in W /\ S2 \subseteq W => Stages(G, R \cup {x}, S2, C, top)
           /\ x \in C /\ S2 \subseteq C => Stages(G, R, W \cup {x}, S2, top)
<1>1. ASSUME x \in R, S2 \subseteq R
      PROVE  Stages(G \cup {x}, S2, W, C, top)
  <2>1. Below(G \cup {x}, S2 \cup W \cup C)  BY <1>1 DEF Stages, Below
  <2>2. Below(S2, W \cup C) /\ Below(W, C)  BY <1>1 DEF Stages, Below
  <2>3. \A y \in (G \cup {x}) \cup S2 \cup W \cup C : y \in Nat /\ y <= top  BY <1>1 DEF Stages
  <2> QED BY <2>1, <2>2, <2>3 DEF Stages
<1>2. ASSUME x \in W, S2 \subseteq W
      PROVE  Stages(G, R \cup {x}, S2, C, top)
  <2>1. Below(G, (R \cup {x}) \cup S2 \cup C)  BY <1>2 DEF Stages, Below
  <2>2. Below(R \cup {x}, S2 \cup C) /\ Below(S2, C)  BY <1>2 DEF Stages, Below
  <2>3. \A y \in G \cup (R \cup {x}) \cup S2 \cup C : y \in Nat /\ y <= top  BY <1>2 DEF Stages
  <2> QED BY <2>1, <2>2, <2>3 DEF Stages
<1>3. ASSUME x \in C, S2 \subseteq C
      PROVE  Stages(G, R, W \cup {x}, S2, top)
  <2>1. Below(G, R \cup (W \cup {x}) \cup S2)  BY <1>3 DEF Stages, Below
  <2>2. Below(R, (W \cup {x}) \cup S2) /\ Below(W \cup {x}, S2)  BY <1>3 DEF Stages, Below
  <2>3. \A y \in G \cup R \cup (W \cup {x}) \cup S2 : y \in Nat /\ y <= top  BY <1>3 DEF Stages
  <2> QED BY <2>1, <2>2, <2>3 DEF Stages
<1> QED BY <1>1, <1>2, <1>3

(* A number not given out before enters at the back. *)
LEMMA StagesEnter ==
    ASSUME NEW G, NEW R, NEW W, NEW C, NEW top \in Nat, Stages(G, R, W, C, top)
    PROVE  /\ Stages(G, R, W, C, top + 1)
           /\ Stages(G, R, W, C \cup {top + 1}, top + 1)
           /\ C = {} => Stages(G, R, W \cup {top + 1}, C, top + 1)
<1>1. \A y \in G \cup R \cup W \cup C : y \in Nat /\ y < top + 1  BY DEF Stages
<1> QED BY <1>1 DEF Stages, Below

(* The oldest element of a growing queue is taken: it is below the rest. *)
LEMMA QueueTail ==
    ASSUME NEW s \in Seq(Nat), s # <<>>, Increasing(s)
    PROVE  /\ Head(s) \in ToSet(s) /\ Head(s) \in Nat
           /\ ToSet(Tail(s)) \subseteq ToSet(s) /\ Below({Head(s)}, ToSet(Tail(s)))
           /\ Increasing(Tail(s))
<1>1. Ascending(s)  BY DEF Increasing, Ascending
<1>2. /\ Ascending(Tail(s)) /\ \A x \in ToSet(Tail(s)) : Head(s) < x
  BY <1>1, AscendingTail
<1>3. Head(s) \in Nat /\ ToSet(s) = {Head(s)} \cup ToSet(Tail(s))  BY TailFacts
<1> QED BY <1>2, <1>3 DEF Increasing, Ascending, Below

(* A number above all of a growing queue is put at its end. *)
LEMMA QueueAppend ==
    ASSUME NEW s \in Seq(Nat), Increasing(s), NEW x \in Nat, Below(ToSet(s), {x})
    PROVE  Increasing(Append(s, x)) /\ ToSet(Append(s, x)) = ToSet(s) \cup {x}
<1>1. Ascending(s) /\ \A y \in ToSet(s) : y < x  BY DEF Increasing, Ascending, Below
<1>2. Ascending(Append(s, x))  BY <1>1, AscendingAppend
<1>3. ToSet(Append(s, x)) = ToSet(s) \cup {x}  BY ToSetAppend
<1> QED BY <1>2, <1>3 DEF Increasing, Ascending

(* The same of one kind of messages on the wire, when listen() takes one. *)
LEMMA WireTakes ==
    ASSUME NEW k, wire \in Seq(Message), wire # <<>>, wire' = Tail(wire), WireIncreasing(k)
    PROVE  /\ OnWire(k)' \subseteq OnWire(k) /\ WireIncreasing(k)'
           /\ Head(wire).kind = k => /\ Head(wire).id \in OnWire(k)
                                     /\ Below({Head(wire).id}, OnWire(k)')
<1>1. /\ Head(wire) = wire[1] /\ 1 \in DOMAIN wire
      /\ \A j \in DOMAIN wire' : j + 1 \in DOMAIN wire /\ wire'[j] = wire[j + 1]
  BY TailFacts
<1>2. DOMAIN wire \subseteq Nat /\ DOMAIN wire' \subseteq Nat \ {0}
  OBVIOUS
<1>3. WireIncreasing(k)'
  <2> SUFFICES ASSUME NEW i \in DOMAIN wire', NEW j \in DOMAIN wire', i < j,
                      wire'[i].kind = k, wire'[j].kind = k
               PROVE  wire'[i].id < wire'[j].id
    BY DEF WireIncreasing
  <2>1. i + 1 < j + 1  BY <1>2
  <2> QED BY <1>1, <2>1 DEF WireIncreasing
<1>4. ASSUME NEW x \in OnWire(k)' PROVE x \in OnWire(k) /\ (Head(wire).kind = k => Head(wire).id < x)
  <2>1. PICK j \in DOMAIN wire' : wire'[j].kind = k /\ x = wire'[j].id  BY <1>4 DEF OnWire
  <2>2. j + 1 \in DOMAIN wire /\ wire[j + 1].kind = k /\ x = wire[j + 1].id  BY <1>1, <2>1
  <2>3. 1 < j + 1  BY <1>2
  <2>4. x \in OnWire(k)  BY <2>2 DEF OnWire
  <2> QED BY <1>1, <2>2, <2>3, <2>4 DEF WireIncreasing
<1>5. Head(wire).kind = k => Head(wire).id \in OnWire(k)  BY <1>1 DEF OnWire
<1> QED BY <1>3, <1>4, <1>5 DEF Below

(* ... and when the server writes one. *)
LEMMA WirePut ==
    ASSUME NEW k, wire \in Seq(Message), NEW m \in Message, wire' = Append(wire, m),
           WireIncreasing(k), m.kind = k => Below(OnWire(k), {m.id})
    PROVE  /\ WireIncreasing(k)'
           /\ OnWire(k)' = IF m.kind = k THEN OnWire(k) \cup {m.id} ELSE OnWire(k)
<1> DEFINE n == Len(wire)
<1>1. /\ DOMAIN wire = 1 .. n /\ DOMAIN wire' = 1 .. n + 1 /\ n \in Nat
      /\ wire'[n + 1] = m /\ \A i \in 1 .. n : wire'[i] = wire[i]
  OBVIOUS
<1> HIDE DEF n
<1>2. \A i \in DOMAIN wire : wire[i].kind = k => wire[i].id \in OnWire(k)  BY DEF OnWire
<1>3. WireIncreasing(k)'
  <2> SUFFICES ASSUME NEW i \in DOMAIN wire', NEW j \in DOMAIN wire', i < j,
                      wire'[i].kind = k, wire'[j].kind = k
               PROVE  wire'[i].id < wire'[j].id
    BY DEF WireIncreasing
  <2>1. i \in 1 .. n /\ (j \in 1 .. n \/ j = n + 1)  BY <1>1
  <2>2. CASE j \in 1 .. n  BY <1>1, <2>1, <2>2 DEF WireIncreasing
  <2>3. CASE j = n + 1
    <3>1. wire'[i].id \in OnWire(k)  BY <1>1, <1>2, <2>1
    <3>2. wire'[j] = m  BY <1>1, <2>3
    <3> QED BY <3>1, <3>2 DEF Below
  <2> QED BY <2>1, <2>2, <2>3
<1>4. ASSUME NEW x \in OnWire(k)' PROVE x \in OnWire(k) \/ (m.kind = k /\ x = m.id)
  <2>1. PICK j \in DOMAIN wire' : wire'[j].kind = k /\ x = wire'[j].id  BY <1>4 DEF OnWire
  <2> QED BY <1>1, <1>2, <2>1
<1>5. ASSUME NEW x \in OnWire(k) PROVE x \in OnWire(k)'
  <2>1. PICK j \in DOMAIN wire : wire[j].kind = k /\ x = wire[j].id  BY <1>5 DEF OnWire
  <2>2. j \in DOMAIN wire' /\ wire'[j] = wire[j]  BY <1>1
  <2> QED BY <2>1, <2>2 DEF OnWire
<1>6. m.kind = k => m.id \in OnWire(k)'
  <2>1. n + 1 \in DOMAIN wire'  BY <1>1
  <2> QED BY <1>1, <2>1 DEF OnWire
<1> QED BY <1>3, <1>4, <1>5, <1>6

(* What StreamsInOrder rests on: the numbers given out so far bound every  *)
(* number under way, so that the next command or message enters at the     *)
(* back.                                                                   *)
OrderInv ==
    /\ Increasing(Returned) /\ Increasing(respQ) /\ WireIncreasing("rsp") /\ Increasing(cmds)
    /\ Increasing(asyncGot) /\ Increasing(asyncQ) /\ WireIncreasing("async")
    /\ Stages(ToSet(Returned), ToSet(respQ), OnWire("rsp"), ToSet(cmds), lastSent)
    /\ Stages(ToSet(asyncGot), ToSet(asyncQ), OnWire("async"), {}, asyncs)

(* What receive() has returned, by number. *)
LEMMA ReturnedFacts ==
    ASSUME got \in Seq(Reply)
    PROVE  /\ Returned \in Seq(Nat)
           /\ \A r \in Reply : got' = Append(got, r) => Returned' = Append(Returned, r.id)
<1>1. ASSUME NEW i \in DOMAIN got PROVE got[i].id \in Nat
  <2>1. got[i] \in Reply  OBVIOUS
  <2> QED BY <2>1 DEF Reply
<1>2. Returned \in Seq(Nat) /\ Len(Returned) = Len(got) /\ DOMAIN Returned = 1 .. Len(got)
  BY <1>1 DEF Returned
<1>3. ASSUME NEW r \in Reply, got' = Append(got, r) PROVE Returned' = Append(Returned, r.id)
  <2> DEFINE n == Len(got)
  <2>1. /\ n \in Nat /\ DOMAIN got' = 1 .. n + 1 /\ got'[n + 1] = r
        /\ \A i \in 1 .. n : got'[i] = got[i]
    BY <1>3
  <2>2. r.id \in Nat  BY DEF Reply
  <2>3. /\ Append(Returned, r.id) \in Seq(Nat) /\ DOMAIN Append(Returned, r.id) = 1 .. n + 1
        /\ Append(Returned, r.id)[n + 1] = r.id
        /\ \A i \in 1 .. n : Append(Returned, r.id)[i] = Returned[i]
    BY <1>2, <2>2
  <2>4. Returned' = [i \in 1 .. n + 1 |-> got'[i].id]  BY <2>1 DEF Returned
  <2>5. \A i \in 1 .. n : Returned[i] = got[i].id  BY DEF Returned
  <2>6. ASSUME NEW i \in 1 .. n + 1 PROVE Returned'[i] = Append(Returned, r.id)[i]
    <3>1. i \in 1 .. n \/ i = n + 1  BY <2>1
    <3> QED BY <2>1, <2>3, <2>4, <2>5, <3>1
  <2>7. Append(Returned, r.id) = [i \in 1 .. n + 1 |-> Append(Returned, r.id)[i]]  BY <2>3
  <2> QED BY <2>4, <2>6, <2>7
<1> QED BY <1>2, <1>3

(* One stage is below another. *)
LEMMA StagesBelow ==
    ASSUME NEW G, NEW R, NEW W, NEW C, NEW top, Stages(G, R, W, C, top), NEW x
    PROVE  /\ x \in R => Below(G, {x})
           /\ x \in W => Below(R, {x})
           /\ x \in C => Below(W, {x})
           /\ x \in Nat /\ top \in Nat /\ top < x => Below(C, {x}) /\ Below(W, {x})
BY DEF Stages, Below

(* Every step keeps both streams in order. *)
LEMMA OrderStep == TypeOK /\ OrderInv /\ [Next]_vars => OrderInv'
<1> SUFFICES ASSUME TypeOK, OrderInv, [Next]_vars PROVE OrderInv'
  OBVIOUS
<1> DEFINE G == ToSet(Returned)
           R == ToSet(respQ)
           W == OnWire("rsp")
           C == ToSet(cmds)
           AG == ToSet(asyncGot)
           AR == ToSet(asyncQ)
           AW == OnWire("async")
<1>0. /\ respQ \in Seq(Nat) /\ asyncQ \in Seq(Nat) /\ cmds \in Seq(Nat) /\ asyncGot \in Seq(Nat)
      /\ wire \in Seq(Message) /\ got \in Seq(Reply) /\ lastSent \in Nat /\ asyncs \in Nat
  BY DEF TypeOK
<1>1. /\ Increasing(Returned) /\ Increasing(respQ) /\ WireIncreasing("rsp") /\ Increasing(cmds)
      /\ Increasing(asyncGot) /\ Increasing(asyncQ) /\ WireIncreasing("async")
      /\ Stages(G, R, W, C, lastSent) /\ Stages(AG, AR, AW, {}, asyncs)
  BY DEF OrderInv
<1>2. ASSUME UNCHANGED <<respQ, wire, cmds, got, lastSent>>
      PROVE  /\ Increasing(Returned)' /\ Increasing(respQ)' /\ WireIncreasing("rsp")'
             /\ Increasing(cmds)' /\ Stages(G', R', W', C', lastSent')
  <2>1. UNCHANGED <<Returned, W>> /\ (WireIncreasing("rsp") <=> WireIncreasing("rsp")')
    BY <1>2 DEF Returned, OnWire, WireIncreasing
  <2> QED BY <1>1, <1>2, <2>1
<1>3. ASSUME UNCHANGED <<asyncGot, asyncQ, wire, asyncs>>
      PROVE  /\ Increasing(asyncGot)' /\ Increasing(asyncQ)' /\ WireIncreasing("async")'
             /\ Stages(AG', AR', AW', {}, asyncs')
  <2>1. UNCHANGED AW /\ (WireIncreasing("async") <=> WireIncreasing("async")')
    BY <1>3 DEF OnWire, WireIncreasing
  <2> QED BY <1>1, <1>3, <2>1
<1> HIDE DEF G, R, W, C, AG, AR, AW
<1> DEFINE Responses == /\ Increasing(Returned)' /\ Increasing(respQ)' /\ WireIncreasing("rsp")'
                        /\ Increasing(cmds)' /\ Stages(G', R', W', C', lastSent')
           Asyncs == /\ Increasing(asyncGot)' /\ Increasing(asyncQ)' /\ WireIncreasing("async")'
                     /\ Stages(AG', AR', AW', {}, asyncs')
<1>4. Responses /\ Asyncs => OrderInv'
  BY DEF OrderInv, G, R, W, C, AG, AR, AW
<1>5. (UNCHANGED got => UNCHANGED <<Returned, G>>) /\ (UNCHANGED respQ => UNCHANGED R)
      /\ (UNCHANGED cmds => UNCHANGED C) /\ (UNCHANGED asyncGot => UNCHANGED AG)
      /\ (UNCHANGED asyncQ => UNCHANGED AR)
      /\ (UNCHANGED wire => UNCHANGED W /\ (WireIncreasing("rsp") => WireIncreasing("rsp")'))
  BY DEF Returned, OnWire, WireIncreasing, G, R, W, C, AG, AR
<1> HIDE DEF Responses, Asyncs
<1>6. CASE \/ connect \/ connectThrows \/ connectNoThread \/ disconnect \/ Join \/ Notified
           \/ ListenTest \/ ListenSubmit \/ ListenError \/ ReceiveTimeout \/ UNCHANGED vars
  <2>1. UNCHANGED <<respQ, wire, cmds, got, lastSent, asyncGot, asyncQ, asyncs>>
    BY <1>6 DEF connect, connectThrows, connectNoThread, disconnect, Join, Notified, ListenTest,
                ListenSubmit, ListenError, ReceiveTimeout, Deadline, Fail, vars, clientVars,
                serverVars
  <2> QED BY <1>2, <1>3, <1>4, <2>1 DEF Responses, Asyncs
<1>7. ASSUME NEW s \in WriteStatus, send(s) PROVE OrderInv'
  <2>1. /\ UNCHANGED <<respQ, wire, got, asyncGot, asyncQ, asyncs>> /\ lastSent' = lastSent + 1
        /\ cmds' = cmds \/ cmds' = Append(cmds, lastSent + 1)
    BY <1>7 DEF send
  <2>2. Stages(G, R, W, C, lastSent') /\ Stages(G, R, W, C \cup {lastSent'}, lastSent')
    BY <1>0, <1>1, <2>1, StagesEnter
  <2>3. Below(C, {lastSent'})
    <3>1. lastSent' \in Nat /\ lastSent < lastSent'  BY <1>0, <2>1
    <3> QED BY <1>0, <1>1, <3>1, StagesBelow
  <2>4. Increasing(cmds)' /\ (C' = C \/ C' = C \cup {lastSent'})
    <3>1. CASE cmds' = cmds  BY <1>1, <3>1 DEF C
    <3>2. CASE cmds' = Append(cmds, lastSent')
      BY <1>0, <1>1, <2>1, <2>3, <3>2, QueueAppend DEF C
    <3> QED BY <2>1, <3>1, <3>2
  <2>5. Responses  BY <1>1, <1>5, <2>1, <2>2, <2>4 DEF Responses
  <2> QED BY <1>3, <1>4, <2>1, <2>5 DEF Asyncs
<1>8. CASE receive
  <2>1. UNCHANGED <<wire, cmds, lastSent, asyncGot, asyncQ, asyncs>>
    BY <1>8 DEF receive, serverVars
  <2>2. CASE UNCHANGED <<respQ, got>>
    BY <1>2, <1>3, <1>4, <2>1, <2>2 DEF Responses, Asyncs
  <2>3. CASE /\ respQ # <<>> /\ got' = Append(got, [id |-> Head(respQ), for |-> lastSent])
             /\ respQ' = Tail(respQ)
    <3>1. /\ Head(respQ) \in R /\ Head(respQ) \in Nat /\ R' \subseteq R
          /\ Below({Head(respQ)}, R') /\ Increasing(respQ)'
      BY <1>0, <1>1, <2>3, QueueTail DEF R
    <3>2. Stages(G \cup {Head(respQ)}, R', W, C, lastSent)  BY <1>1, <3>1, StagesPass
    <3>3. Below(G, {Head(respQ)})  BY <1>1, <3>1, StagesBelow
    <3>4. Returned \in Seq(Nat) /\ Returned' = Append(Returned, Head(respQ))
      <4> DEFINE r == [id |-> Head(respQ), for |-> lastSent]
      <4>1. r \in Reply /\ r.id = Head(respQ) /\ got' = Append(got, r)
        BY <1>0, <2>3, <3>1 DEF Reply
      <4> HIDE DEF r
      <4> QED BY <1>0, <4>1, ReturnedFacts
    <3>5. Increasing(Returned)' /\ G' = G \cup {Head(respQ)}
      BY <1>1, <3>1, <3>3, <3>4, QueueAppend DEF G
    <3>6. Responses  BY <1>1, <1>5, <2>1, <3>1, <3>2, <3>5 DEF Responses
    <3> QED BY <1>3, <1>4, <2>1, <3>6 DEF Asyncs
  <2> QED BY <1>8, <2>2, <2>3 DEF receive, Fail
<1>9. CASE receive_async
  <2>1. /\ UNCHANGED <<respQ, wire, cmds, got, lastSent, asyncs>> /\ asyncQ # <<>>
        /\ asyncGot' = Append(asyncGot, Head(asyncQ)) /\ asyncQ' = Tail(asyncQ)
    BY <1>9 DEF receive_async, serverVars
  <2>2. /\ Head(asyncQ) \in AR /\ Head(asyncQ) \in Nat /\ AR' \subseteq AR
        /\ Below({Head(asyncQ)}, AR') /\ Increasing(asyncQ)'
    BY <1>0, <1>1, <2>1, QueueTail DEF AR
  <2>3. Stages(AG \cup {Head(asyncQ)}, AR', AW, {}, asyncs)  BY <1>1, <2>2, StagesPass
  <2>4. Below(AG, {Head(asyncQ)})  BY <1>1, <2>2, StagesBelow
  <2>5. Increasing(asyncGot)' /\ AG' = AG \cup {Head(asyncQ)}
    BY <1>0, <1>1, <2>1, <2>2, <2>4, QueueAppend DEF AG
  <2>6. AW' = AW /\ WireIncreasing("async")'  BY <1>1, <2>1 DEF AW, OnWire, WireIncreasing
  <2>7. Asyncs  BY <2>1, <2>2, <2>3, <2>5, <2>6 DEF Asyncs
  <2> QED BY <1>2, <1>4, <2>1, <2>7 DEF Responses
<1>10. CASE ListenData \/ ListenNothing
  <2>1. UNCHANGED <<cmds, got, lastSent, asyncGot, asyncs>>
    BY <1>10 DEF ListenData, ListenNothing, clientVars
  <2>2. CASE UNCHANGED <<wire, respQ, asyncQ>>
    BY <1>2, <1>3, <1>4, <2>1, <2>2 DEF Responses, Asyncs
  <2>3. CASE wire # <<>> /\ wire' = Tail(wire)
    <3>1. /\ W' \subseteq W /\ WireIncreasing("rsp")'
          /\ Head(wire).kind = "rsp" => Head(wire).id \in W /\ Below({Head(wire).id}, W')
      BY <1>0, <1>1, <2>3, WireTakes DEF W
    <3>2. /\ AW' \subseteq AW /\ WireIncreasing("async")'
          /\ Head(wire).kind = "async" => Head(wire).id \in AW /\ Below({Head(wire).id}, AW')
      BY <1>0, <1>1, <2>3, WireTakes DEF AW
    <3>3. Head(wire).kind \in {"rsp", "async"} /\ Head(wire).id \in Nat
      <4>1. Head(wire) \in Message  BY <1>0, <2>3, TailFacts
      <4> QED BY <4>1 DEF Message
    <3>4. ASSUME UNCHANGED respQ PROVE Responses
      <4>1. Stages(G, R, W', C, lastSent)  BY <1>1, <3>1, StagesLose
      <4> QED BY <1>1, <1>5, <2>1, <3>1, <3>4, <4>1 DEF Responses
    <3>5. ASSUME UNCHANGED asyncQ PROVE Asyncs
      <4>1. Stages(AG, AR, AW', {}, asyncs)  BY <1>1, <3>2, StagesLose
      <4> QED BY <1>1, <1>5, <2>1, <3>2, <3>5, <4>1 DEF Asyncs
    <3>6. CASE UNCHANGED <<respQ, asyncQ>>  BY <1>4, <3>4, <3>5, <3>6
    <3>7. CASE /\ Head(wire).kind = "rsp" /\ respQ' = Append(respQ, Head(wire).id)
               /\ UNCHANGED asyncQ
      <4>1. Stages(G, R \cup {Head(wire).id}, W', C, lastSent)  BY <1>1, <3>1, <3>7, StagesPass
      <4>2. Below(R, {Head(wire).id})  BY <1>1, <3>1, <3>7, StagesBelow
      <4>3. Increasing(respQ)' /\ R' = R \cup {Head(wire).id}
        BY <1>0, <1>1, <3>3, <3>7, <4>2, QueueAppend DEF R
      <4>4. Responses  BY <1>1, <1>5, <2>1, <3>1, <4>1, <4>3 DEF Responses
      <4> QED BY <1>4, <3>5, <3>7, <4>4
    <3>8. CASE /\ Head(wire).kind = "async" /\ asyncQ' = Append(asyncQ, Head(wire).id)
               /\ UNCHANGED respQ
      <4>1. Stages(AG, AR \cup {Head(wire).id}, AW', {}, asyncs)  BY <1>1, <3>2, <3>8, StagesPass
      <4>2. Below(AR, {Head(wire).id})  BY <1>1, <3>2, <3>8, StagesBelow
      <4>3. Increasing(asyncQ)' /\ AR' = AR \cup {Head(wire).id}
        BY <1>0, <1>1, <3>3, <3>8, <4>2, QueueAppend DEF AR
      <4>4. Asyncs  BY <1>1, <1>5, <2>1, <3>2, <4>1, <4>3 DEF Asyncs
      <4> QED BY <1>4, <3>4, <3>8, <4>4
    <3> QED BY <1>10, <3>3, <3>6, <3>7, <3>8 DEF ListenData, ListenNothing, Sort
  <2> QED BY <1>10, <2>2, <2>3 DEF ListenData, ListenNothing
<1>11. CASE Answer
  <2> DEFINE m == [kind |-> "rsp", id |-> Head(cmds)]
  <2>1. /\ UNCHANGED <<respQ, got, lastSent, asyncGot, asyncQ, asyncs>> /\ cmds # <<>>
        /\ wire' = Append(wire, m) /\ cmds' = Tail(cmds)
    BY <1>11 DEF Answer, clientVars
  <2>2. /\ Head(cmds) \in C /\ Head(cmds) \in Nat /\ C' \subseteq C
        /\ Below({Head(cmds)}, C') /\ Increasing(cmds)'
    BY <1>0, <1>1, <2>1, QueueTail DEF C
  <2>3. m \in Message /\ m.kind = "rsp" /\ m.kind # "async" /\ m.id = Head(cmds)
    BY <2>2 DEF Message
  <2> HIDE DEF m
  <2>4. Below(W, {m.id})  BY <1>1, <2>2, <2>3, StagesBelow
  <2>5. WireIncreasing("rsp")' /\ W' = W \cup {m.id}
    BY <1>0, <1>1, <2>1, <2>3, <2>4, WirePut DEF W
  <2>6. WireIncreasing("async")' /\ AW' = AW
    BY <1>0, <1>1, <2>1, <2>3, WirePut DEF AW
  <2>7. Stages(G, R, W \cup {m.id}, C', lastSent)  BY <1>1, <2>2, <2>3, StagesPass
  <2>8. Responses  BY <1>1, <1>5, <2>1, <2>2, <2>5, <2>7 DEF Responses
  <2>9. Asyncs  BY <1>1, <1>5, <2>1, <2>6 DEF Asyncs
  <2> QED BY <1>4, <2>8, <2>9
<1>12. CASE Ignore
  <2>1. /\ UNCHANGED <<respQ, got, lastSent, wire, asyncGot, asyncQ, asyncs>> /\ cmds # <<>>
        /\ cmds' = Tail(cmds)
    BY <1>12 DEF Ignore, clientVars
  <2>2. C' \subseteq C /\ Increasing(cmds)'
    BY <1>0, <1>1, <2>1, QueueTail DEF C
  <2>3. Stages(G, R, W, C', lastSent)  BY <1>1, <2>2, StagesLose
  <2>4. Responses  BY <1>1, <1>5, <2>1, <2>2, <2>3 DEF Responses
  <2> QED BY <1>3, <1>4, <2>1, <2>4 DEF Asyncs
<1>13. CASE EmitAsync
  <2> DEFINE m == [kind |-> "async", id |-> asyncs']
  <2>1. /\ UNCHANGED <<respQ, got, lastSent, cmds, asyncGot, asyncQ>>
        /\ asyncs' = asyncs + 1 /\ wire' = Append(wire, m)
    BY <1>13 DEF EmitAsync, clientVars
  <2>2. asyncs' \in Nat /\ asyncs < asyncs'  BY <1>0, <2>1
  <2>3. m \in Message /\ m.kind = "async" /\ m.kind # "rsp" /\ m.id = asyncs'
    BY <2>2 DEF Message
  <2> HIDE DEF m
  <2>4. Below(AW, {m.id})  BY <1>0, <1>1, <2>2, <2>3, StagesBelow
  <2>5. WireIncreasing("async")' /\ AW' = AW \cup {m.id}
    BY <1>0, <1>1, <2>1, <2>3, <2>4, WirePut DEF AW
  <2>6. WireIncreasing("rsp")' /\ W' = W
    BY <1>0, <1>1, <2>1, <2>3, WirePut DEF W
  <2>7. Stages(AG, AR, AW \cup {m.id}, {}, asyncs')  BY <1>0, <1>1, <2>1, <2>3, StagesEnter
  <2>8. Asyncs  BY <1>1, <1>5, <2>1, <2>5, <2>7 DEF Asyncs
  <2>9. Responses  BY <1>1, <1>5, <2>1, <2>6 DEF Responses
  <2> QED BY <1>4, <2>8, <2>9
<1> QED BY <1>6, <1>7, <1>8, <1>9, <1>10, <1>11, <1>12, <1>13
        DEF Next, Client, listen, Server

(* Responses are returned in the order of their commands, async messages   *)
(* in the order the server emitted them, none twice and none in the other  *)
(* stream, whatever is lost, late or reconnected.                          *)
THEOREM BothStreamsInOrder == Spec => []StreamsInOrder
<1>1. Init => OrderInv
  <2> SUFFICES ASSUME Init PROVE OrderInv
    OBVIOUS
  <2>1. Returned = <<>> /\ respQ = <<>> /\ cmds = <<>> /\ asyncGot = <<>> /\ asyncQ = <<>>
        /\ wire = <<>>
    BY DEF Init, Returned
  <2>2. Increasing(<<>>) /\ \A k : WireIncreasing(k) /\ OnWire(k) = {}
    BY <2>1 DEF Increasing, WireIncreasing, OnWire
  <2>3. \A top : Stages({}, {}, {}, {}, top)  BY DEF Stages, Below
  <2> QED BY <2>1, <2>2, <2>3, ToSetEmpty DEF OrderInv
<1>2. OrderInv => StreamsInOrder
  BY DEF OrderInv, StreamsInOrder, ResponsesInOrder, AsyncsInOrder, Stages, Below
<1> QED BY <1>1, <1>2, OrderStep, TypeCorrect, PTL DEF Spec

=============================================================================
