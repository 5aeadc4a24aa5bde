----------------------------- MODULE CswpClient -----------------------------
(***************************************************************************)
(* The protocol client (client/cdebug/cswp_client.c): every API call       *)
(* encodes its command into the request buffer and appends a node to the   *)
(* list of pending responses; outside a batch the request is then sent and *)
(* the response processed at once, inside a batch that happens in          *)
(* cswp_batch_end().  cswp_init() and cswp_term() count handles on one     *)
(* connection.                                                             *)
(*                                                                         *)
(* Commands are numbered; the number stands for the caller's output        *)
(* buffers too.  The transport is what CswpTransport promises: responses   *)
(* arrive in order, possibly after the receive that wanted them has timed  *)
(* out.  The server is external: it executes the commands of a request in  *)
(* order and reports each one's outcome.                                   *)
(***************************************************************************)
EXTENDS Naturals, Sequences, FiniteSets

CONSTANTS
    MaxId,         \* bound: commands issued
    MaxHandles     \* bound: cswp_init() calls not yet undone

ASSUME ClientAssumption ==
    MaxId \in Nat /\ MaxHandles \in Nat

Op == {"INIT", "TERM", "OPEN", "READ"}
Command == [op : Op, id : Nat]
Result == {"SUCCESS", "TXFAILED", "TIMEOUT", "RESPONSE_SIZE_ERR", "ERROR"}

VARIABLES
    connected,  \* priv->connected
    link,       \* the transport is connected
    batch,      \* priv->batch_mode
    cmdBuf,     \* the commands encoded in priv->cmd
    numCmds,    \* priv->num_cmds
    pending,    \* priv->pending_responses
    gaveUp,     \* the caller dropped the client after an error inside a batch
    nextId,
    inbox,      \* responses the transport has or will get
    session,    \* the server has an open CSWP session
    executed,   \* commands the server executed, and the mode of their request
    replies,    \* which command's response each caller's buffers were filled from
    last,       \* the last transaction: its result, commands, opsCompleted, and
                \*   the commands whose responses fit their callers' buffers
    doubtful    \* a send or a receive has failed

bufVars == <<cmdBuf, numCmds, pending>>
serverVars == <<inbox, session, executed>>
resultVars == <<replies, last, doubtful>>
vars == <<connected, link, batch, bufVars, gaveUp, nextId, serverVars, resultVars>>

Init ==
    /\ connected = 0 /\ link = FALSE /\ batch = "NONE"
    /\ cmdBuf = <<>> /\ numCmds = 0 /\ pending = <<>>
    /\ gaveUp = FALSE /\ nextId = 1
    /\ inbox = <<>> /\ session \in BOOLEAN /\ executed = <<>>
    /\ replies = {} /\ doubtful = FALSE
    /\ last = [res |-> "SUCCESS", ids |-> {}, ops |-> 0, fits |-> {}]

(***************************************************************************)
(* The server executes the n commands of a request in order.  One of them, *)
(* the one at position f, may fail (none if f = n + 1); in an ABORT batch  *)
(* those after it are cancelled.                                           *)
(***************************************************************************)
Outcome(n, mode, f) == [i \in 1 .. n |-> i < f \/ (i > f /\ mode # "ABORT")]

Response(body, ok) == [i \in DOMAIN ok |-> [op |-> body[i].op, id |-> body[i].id, ok |-> ok[i]]]

Done(body, n, mode, f) ==
    SubSeq(body, 1, f - 1) \o (IF mode = "ABORT" THEN <<>> ELSE SubSeq(body, f + 1, n))

Execute(body, n, mode, f) ==
    LET done == Done(body, n, mode, f)
    IN  /\ executed' = executed \o [j \in DOMAIN done |-> [id |-> done[j].id, mode |-> mode]]
        /\ session' = IF \E j \in DOMAIN done : done[j].op = "TERM" THEN FALSE
                      ELSE session \/ \E j \in DOMAIN done : done[j].op = "INIT"

(***************************************************************************)
(* cswp_client_transact_receive() and cswp_client_verify_response(): the   *)
(* responses are matched with the pending list in order, by message type,  *)
(* up to the first one that does not match, carries an error or does not   *)
(* fit the caller's buffers (at a position outside fits).  A response that *)
(* is shorter than it says, or has another number of responses than the    *)
(* request had commands, is refused as a whole.                            *)
(***************************************************************************)
MatchType(rsp, pend, i) == rsp[i].op = pend[i].op
Matches(rsp, pend, i) == rsp[i].op = pend[i].op /\ rsp[i].ok

verify_response(rsp, pend, fits, k) ==
    /\ \A i \in 1 .. k : i \in fits /\ Matches(rsp, pend, i)
    /\ k < Len(pend) => ~(k + 1 \in fits /\ Matches(rsp, pend, k + 1))

NotProcessed(res, pend, ops) ==
    /\ last' = [res |-> res, ids |-> { pend[i].id : i \in DOMAIN pend }, ops |-> ops,
                fits |-> {}]
    /\ UNCHANGED replies

transact_receive(box, n, pend) ==
    \/ /\ inbox' = box
       /\ NotProcessed("TIMEOUT", pend, 0)
       /\ doubtful' = TRUE
    \/ /\ box # <<>>                    \* "Incomplete response received": part of it
       /\ inbox' = Tail(box)
       /\ NotProcessed("RESPONSE_SIZE_ERR", pend, 0)
       /\ doubtful' = TRUE
    \/ /\ box # <<>>
       /\ inbox' = Tail(box)
       /\ UNCHANGED doubtful
       /\ LET rsp == Head(box)
          IN  IF Len(rsp) # n
              THEN NotProcessed("RESPONSE_SIZE_ERR", pend, 0)
              ELSE \E fits \in SUBSET DOMAIN pend, k \in 0 .. Len(pend) :
                     /\ verify_response(rsp, pend, fits, k)
                     /\ last' = [res |-> IF k = Len(pend) THEN "SUCCESS" ELSE "ERROR",
                                 ids |-> { pend[i].id : i \in DOMAIN pend }, ops |-> k,
                                 fits |-> { pend[i].id : i \in fits }]
                     /\ replies' = replies \cup
                          { [slot |-> pend[i].id, from |-> rsp[i].id] : i \in 1 .. k }

(***************************************************************************)
(* cswp_client_transact().  The send fails (the server may have got the    *)
(* request all the same), the request is never answered, or it is.  The    *)
(* pending list is freed in every case; num_cmds and the buffer stay.      *)
(* opsCompleted is left as it was when the send fails.                     *)
(***************************************************************************)
transact(up, body, n, pend, mode) ==
    /\ cmdBuf' = body /\ numCmds' = n /\ pending' = <<>>
    /\ \/ /\ NotProcessed("TXFAILED", pend, last.ops)
          /\ doubtful' = TRUE
          /\ \/ UNCHANGED serverVars
             \/ up /\ \E f \in 1 .. n + 1 :
                   /\ Execute(body, n, mode, f)
                   /\ inbox' = Append(inbox, Response(body, Outcome(n, mode, f)))
       \/ /\ up
          /\ UNCHANGED <<session, executed>>
          /\ transact_receive(inbox, n, pend)
       \/ /\ up
          /\ \E f \in 1 .. n + 1 :
               /\ Execute(body, n, mode, f)
               /\ transact_receive(Append(inbox, Response(body, Outcome(n, mode, f))), n, pend)

(* cswp_client_prep_priv_cmd_data() *)
prep_nothing == UNCHANGED bufVars
prep_priv_cmd_data ==
    IF batch = "NONE"
    THEN cmdBuf' = <<>> /\ numCmds' = 0 /\ pending' = <<>>
    ELSE UNCHANGED bufVars

(***************************************************************************)
(* The commands without a state of their own: cswp_get_devices, device_    *)
(* open/close, capabilities, reg_list/read/write, mem_read/write/poll and  *)
(* the nvsec extension.  Encoding fails when the request buffer is full,   *)
(* except for the pairs of a register write (see CswpBuffer); inside a     *)
(* batch the callers then drop the client.                                 *)
(***************************************************************************)
add_node_uncounted(c) ==
    /\ cmdBuf' = Append(cmdBuf, c)
    /\ pending' = Append(pending, c)
    /\ UNCHANGED numCmds
add_node_in_front(c) ==
    /\ cmdBuf' = Append(cmdBuf, c)
    /\ pending' = <<c>> \o pending
    /\ numCmds' = numCmds + 1
add_node_for_pending_rsp(c) ==
    /\ cmdBuf' = Append(cmdBuf, c)
    /\ pending' = Append(pending, c)
    /\ numCmds' = numCmds + 1

command(op) ==
    /\ ~gaveUp /\ nextId <= MaxId
    /\ nextId' = nextId + 1
    /\ LET c == [op |-> op, id |-> nextId]
       IN  IF batch = "NONE"
           THEN transact(link, <<c>>, 1, <<c>>, "NONE")
           ELSE add_node_for_pending_rsp(c) /\ UNCHANGED <<serverVars, resultVars>>
    /\ UNCHANGED <<connected, link, batch, gaveUp>>

commandTooLarge ==
    /\ ~gaveUp
    /\ gaveUp' = (batch # "NONE")
    /\ prep_priv_cmd_data
    /\ UNCHANGED <<connected, link, batch, nextId, serverVars, resultVars>>

(***************************************************************************)
(* cswp_init() and cswp_term(), called outside batches.  The cached reply  *)
(* of a repeated cswp_init() is not modelled.                              *)
(***************************************************************************)
cswp_init ==
    /\ ~gaveUp /\ batch = "NONE"
    /\ IF connected > 0
       THEN /\ connected < MaxHandles
            /\ connected' = connected + 1
            /\ UNCHANGED <<link, bufVars, nextId, serverVars, resultVars>>
       ELSE LET c == [op |-> "INIT", id |-> nextId]
            IN  /\ nextId <= MaxId
                /\ nextId' = nextId + 1
                /\ transact(TRUE, <<c>>, 1, <<c>>, "NONE")
                /\ connected' = IF last'.res = "SUCCESS" THEN 1 ELSE 0
                /\ link' = (last'.res = "SUCCESS")
    /\ UNCHANGED <<batch, gaveUp>>

HeldUnlessOne == connected # 1
ReleaseAtOnce == FALSE
StillHeld == connected > 1

cswp_term ==
    /\ ~gaveUp /\ batch = "NONE"
    /\ IF StillHeld
       THEN /\ connected' = connected - 1
            /\ prep_priv_cmd_data
            /\ UNCHANGED <<link, nextId, serverVars, resultVars>>
       ELSE LET c == [op |-> "TERM", id |-> nextId]
            IN  /\ nextId <= MaxId
                /\ nextId' = nextId + 1
                /\ transact(link \/ connected = 0, <<c>>, 1, <<c>>, "NONE")
                /\ connected' = IF connected > 0 THEN connected - 1 ELSE 0
                /\ link' = FALSE
    /\ UNCHANGED <<batch, gaveUp>>

(* cswp_init() or, without a handle, cswp_term() that cannot connect: no   *)
(* step but for the reset of the buffer in cswp_term().                    *)
termCannotConnect ==
    /\ ~gaveUp /\ batch = "NONE" /\ connected = 0
    /\ prep_priv_cmd_data
    /\ UNCHANGED <<connected, link, batch, gaveUp, nextId, serverVars, resultVars>>

(* ccu connects and disconnects the transport itself, around one command.  *)
setup_cdebug ==
    /\ ~gaveUp /\ ~link
    /\ link' = TRUE
    /\ UNCHANGED <<connected, batch, bufVars, gaveUp, nextId, serverVars, resultVars>>

disconnect_transport ==
    /\ link
    /\ link' = FALSE
    /\ UNCHANGED <<connected, batch, bufVars, gaveUp, nextId, serverVars, resultVars>>

(***************************************************************************)
(* cswp_batch_begin() and cswp_batch_end(), which callers call in pairs.   *)
(***************************************************************************)
cswp_batch_begin(mode) ==
    /\ ~gaveUp
    /\ batch' = mode
    /\ prep_priv_cmd_data
    /\ UNCHANGED <<connected, link, gaveUp, nextId, serverVars, resultVars>>

cswp_batch_end ==
    /\ ~gaveUp /\ batch # "NONE"
    /\ batch' = "NONE"
    /\ IF numCmds > 0
       THEN transact(link, cmdBuf, numCmds, pending, batch)
       ELSE UNCHANGED <<bufVars, serverVars, resultVars>>
    /\ UNCHANGED <<connected, link, gaveUp, nextId>>

Next ==
    \/ \E op \in {"OPEN", "READ"} : command(op)
    \/ commandTooLarge
    \/ cswp_init \/ cswp_term \/ termCannotConnect
    \/ setup_cdebug \/ disconnect_transport
    \/ \E mode \in {"CONTINUE", "ABORT"} : cswp_batch_begin(mode)
    \/ cswp_batch_end

Spec == Init /\ [][Next]_vars
-----------------------------------------------------------------------------
(* The fields of the client's private data are well typed; the handle      *)
(* count of cswp_init() and cswp_term() stays within its range.            *)
TypeOK ==
    /\ connected \in 0 .. MaxHandles + 1
    /\ link \in BOOLEAN /\ gaveUp \in BOOLEAN /\ doubtful \in BOOLEAN /\ session \in BOOLEAN
    /\ batch \in {"NONE", "CONTINUE", "ABORT"}
    /\ cmdBuf \in Seq(Command) /\ pending \in Seq(Command) /\ numCmds \in Nat
    /\ nextId \in 1 .. MaxId + 1
    /\ inbox \in Seq(Seq([op : Op, id : Nat, ok : BOOLEAN]))
    /\ executed \in Seq([id : Nat, mode : {"NONE", "CONTINUE", "ABORT"}])
    /\ replies \subseteq [slot : Nat, from : Nat]
    /\ last \in [res : Result, ids : SUBSET Nat, ops : Nat, fits : SUBSET Nat]

(* Inside a batch the request header, the encoded commands and the list of *)
(* expected responses describe the same commands.  (An encoder succeeds or *)
(* fails as a whole here; that cswp_device_reg_write counts a command      *)
(* whose last pairs did not fit is the subject of CswpBuffer and CswpWire.) *)
HonestRequest == batch # "NONE" => numCmds = Len(pending) /\ cmdBuf = pending

(* The server executes commands in the order the callers issued them and   *)
(* none twice: a failed or timed out transaction is never sent again.      *)
ExecutedOnce == \A i, j \in DOMAIN executed : i < j => executed[i].id < executed[j].id

(* Until a send or receive fails, a caller's buffers are filled only from  *)
(* the response to its own command, alone or in any place of a batch.      *)
ReplyToOwnCommand == ~doubtful => \A r \in replies : r.slot = r.from

(* A call that reports success got every one of its commands executed and  *)
(* answered; opsCompleted counts the commands that were answered.          *)
SuccessMeansDone ==
    ~doubtful =>
        /\ last.ops = Cardinality({ id \in last.ids : [slot |-> id, from |-> id] \in replies })
        /\ last.res = "SUCCESS" => \A id \in last.ids : \E i \in DOMAIN executed : executed[i].id = id

(* "We keep track to only call CSWP term once all handles have been        *)
(* released": the session a handle relies on is not ended under it.        *)
SessionWhileHeld == ~doubtful /\ connected > 0 => session

(* "0: continue on error": in a CONTINUE batch a command the server could  *)
(* not execute does not keep those behind it from being executed, and      *)
(* answered if their responses fit their callers' buffers.                 *)
IsExecuted(id) == \E i \in DOMAIN executed : executed[i].id = id
BehindFailure(id) == id \in last.ids /\ \E failing \in last.ids : failing < id /\ ~IsExecuted(failing)
ContinueOnError ==
    ~doubtful => \A i \in DOMAIN executed :
                    LET id == executed[i].id
                    IN  executed[i].mode = "CONTINUE" /\ BehindFailure(id) /\ id \in last.fits
                          => [slot |-> id, from |-> id] \in replies
=============================================================================
