------------------------------- MODULE CswpWire -------------------------------
(***************************************************************************)
(* The CSWP client over TCP against the dummy server, byte by byte: the    *)
(* calls of client/cdebug/cswp_client.c in the order in which a process    *)
(* (a ccu command, client_utility/ccu_cswp.cpp, or an application of the   *)
(* library) issues them, the codec of both ends, and the connections in    *)
(* between.  CswpClient models the same calls with abstract messages and   *)
(* an unreliable server; here the server is the repository's own and the   *)
(* messages are the bytes on the wire.                                     *)
(*                                                                         *)
(* A session is the sequence of calls a process makes.  The first call     *)
(* that fails ends it, as TERM_EARLY_ON_ERR does.                          *)
(***************************************************************************)
EXTENDS DummyServer

CONSTANTS
    Sessions,   \* the sessions a process may run
    BufferSize  \* CSWP_REQ_RSP_BUFFER_SIZE

VARIABLES
    c_pc,       \* "next", "encode", "receive", "verify", "done"
    todo,       \* the calls the process still has to make; the current one first
    c_cur,      \* the commands of the current call that are not yet encoded
    c_mode,     \* batch_mode
    c_buf,      \* priv->cmd
    c_pend,     \* pending_responses
    c_rsp,      \* priv->rsp
    c_res,      \* the result of the current call
    conn,       \* m_socket_fd: a connection, or 0
    connected,  \* priv->connected
    got         \* the commands of this request whose response has been verified

clientVars == <<c_pc, todo, c_cur, c_mode, c_buf, c_pend, c_rsp, c_res, conn, connected, got>>
vars == <<netVars, srvVars, clientVars>>

BATCH_NONE == 0
BATCH_CONTINUE == 1
BATCH_ABORT == 2
CSWP_UNEXPECTED_RESPONSE == 19
CSWP_RESPONSE_SIZE_ERR == 20
CSWP_REQ_HEADER_SIZE == 15
CSWP_CAP_REG(caps) == caps % 2 = 1

(* The buffer of a request holds at least the space kept for its header.   *)
ASSUME BufferAssumption == BufferSize \in Nat /\ BufferSize >= CSWP_REQ_HEADER_SIZE

-----------------------------------------------------------------------------
(* Calls, and the sessions of the ccu commands.  `room` is what the caller *)
(* has space for.                                                          *)

MAX_NUM_DEVICES == 3
MAX_NAME_LEN == 50
CLIENT_PROTOCOL_V == 256
CLIENT_ID_STR == <<67>>

Cmd(fields, room) == [fields |-> fields, room |-> room]
Type(cmd) == cmd.fields[1].val[1]
Request(mode, cmds) == [call |-> "request", mode |-> mode, cmds |-> cmds]
Init_(cmds) == [call |-> "init", mode |-> BATCH_NONE, cmds |-> cmds]
Connect == [call |-> "connect", mode |-> BATCH_NONE, cmds |-> <<>>]
Disconnect == [call |-> "disconnect", mode |-> BATCH_NONE, cmds |-> <<>>]
Term == [call |-> "term", mode |-> BATCH_NONE, cmds |-> <<Cmd(encode_term_command, 0)>>]

CswpInit == Init_(<<Cmd(encode_init_command(CLIENT_PROTOCOL_V, CLIENT_ID_STR), MAX_NAME_LEN)>>)
OpenAll ==
    Request(BATCH_ABORT, [d \in 1 .. MAX_NUM_DEVICES |->
        Cmd(encode_device_open_command(d - 1), MAX_NAME_LEN)])
CloseAll ==
    Request(BATCH_ABORT, [d \in 1 .. MAX_NUM_DEVICES |-> Cmd(encode_device_close_command(d - 1), 0)])

Single(cmd) == <<Connect, Request(BATCH_NONE, <<cmd>>), Disconnect>>
Registers(id, n) == [i \in 1 .. n |-> id + 4 * (i - 1)]

init_cswp == <<CswpInit, OpenAll, Disconnect>>
term_cswp == <<Connect, CloseAll, Term>>
get_dev_info == Single(Cmd(encode_get_devices_command, MAX_NUM_DEVICES))
get_dev_cap(dev) == Single(Cmd(encode_get_device_capabilities_command(dev), 0))
get_reg_list == Single(Cmd(encode_reg_list_command(0), 7200))
get_dev_reg(dev, n, id) == Single(Cmd(encode_reg_read_command(dev, Registers(id, n)), n))
set_dev_reg(dev, n, id, values) ==
    Single(Cmd(reg_write(dev,
        [i \in 1 .. n |-> [id |-> Registers(id, n)[i], value |-> values[i]]]), 0))

(* One sub-request is sent alone, several as a batch. *)
Transfer(cmds) ==
    IF Len(cmds) = 1 THEN Single(cmds[1])
    ELSE <<Connect, Request(BATCH_ABORT, cmds), Disconnect>>
execute_get_dev_mem(dev, subs) ==
    Transfer([i \in DOMAIN subs |-> Cmd(encode_mem_read_command(
        dev, subs[i].saddr, subs[i].size, subs[i].acc_sz, 0), subs[i].size)])
execute_set_dev_mem(dev, subs) ==
    Transfer([i \in DOMAIN subs |-> Cmd(encode_mem_write_command(
        dev, subs[i].saddr, subs[i].size, subs[i].acc_sz, 0,
        [k \in 1 .. subs[i].size |-> k % 256]), 0)])

-----------------------------------------------------------------------------
(* Decoding the responses: the *_complete functions.                       *)

get_optional_string(r, strSize) ==
    LET l == get_varint(r)
    IN  IF strSize > 0 THEN get_string(r, strSize)
        ELSE IF l.res # CSWP_SUCCESS THEN l
        ELSE [DropValue(l) EXCEPT !.pos = @ + LastValue(l)]

decode_init_response_body(r, room) ==
    InTurn(<<"version", "id", "version">>,
           LAMBDA x, f : IF f = "id" THEN get_optional_string(x, room) ELSE get_varint(x), r)

(* The result of reading a name is overwritten by that of reading the type *)
(* behind it.                                                              *)
NameAndType(r) ==
    LET name == get_string(r, MAX_NAME_LEN)
    IN  IF r.res # CSWP_SUCCESS THEN r
        ELSE get_string([name EXCEPT !.res = CSWP_SUCCESS], MAX_NAME_LEN)

Listed(r, room, Read(_)) ==
    LET count == get_varint(r)
    IN  IF count.res # CSWP_SUCCESS THEN count
        ELSE IF room < LastValue(count) THEN Fail(count, CSWP_OUTPUT_BUFFER_OVERFLOW)
        ELSE Times(LastValue(count), Read, count)
cswp_get_devices_complete(r, room) == Listed(r, room, NameAndType)
cswp_device_reg_read_complete(r, room) == Listed(r, room, get_uint32)

decode_capabilities_and_data(r) == Times(2, get_varint, r)
decode_get_device_capabilities(r) ==
    LET caps == get_varint(r)
    IN  IF caps.res = CSWP_SUCCESS /\ CSWP_CAP_REG(LastValue(caps)) THEN get_varint(caps) ELSE caps

(* Bytes beyond the caller's buffer are dropped, and reported. *)
MemData(count) ==
    IF count.res # CSWP_SUCCESS THEN count ELSE get_data(count, LastValue(count))
Clamp(data, room) ==
    IF data.res # CSWP_SUCCESS \/ data.out[1][1] <= room THEN data
    ELSE [Fail(data, CSWP_OUTPUT_BUFFER_OVERFLOW) EXCEPT
            !.out = <<@[1], SubSeq(@[2], 1, room)>>]
cswp_device_mem_read_complete(r, room) ==
    InTurn(<<"count", "data", "copy">>,
           LAMBDA x, part : CASE part = "count" -> get_varint(x)
                              [] part = "data" -> MemData(x)
                              [] part = "copy" -> Clamp(x, room), r)

(* The register descriptions behind the count of REG_LIST are left out:    *)
(* the server refuses the only device it is asked for, and has none to     *)
(* describe for the others.                                                *)
Complete(type, r, room) ==
    CASE type = CSWP_INIT -> decode_init_response_body(r, room)
      [] type = CSWP_DEVICE_OPEN -> get_optional_string(r, room)
      [] type = CSWP_GET_DEVICES -> cswp_get_devices_complete(r, room)
      [] type = CSWP_GET_DEVICE_CAPABILITIES -> decode_get_device_capabilities(r)
      [] type = CSWP_REG_LIST -> get_varint(r)
      [] type = CSWP_REG_READ -> cswp_device_reg_read_complete(r, room)
      [] type = CSWP_MEM_READ -> cswp_device_mem_read_complete(r, room)
      [] OTHER -> r

ResponseBody(hdr, cmd) ==
    LET body == [hdr EXCEPT !.out = <<>>]
    IN  IF hdr.res # CSWP_SUCCESS THEN body
        ELSE IF hdr.out[1][1] # Type(cmd) THEN Fail(body, CSWP_UNEXPECTED_RESPONSE)
        ELSE IF hdr.out[2][1] # CSWP_SUCCESS THEN Fail(body, hdr.out[2][1])
        ELSE Complete(Type(cmd), body, cmd.room)
cswp_client_verify_response(r, cmd) ==
    InTurn(<<"type", "error", "body">>,
           LAMBDA x, part : IF part = "body" THEN ResponseBody(x, cmd) ELSE get_varint(x),
           [r EXCEPT !.out = <<>>])

-----------------------------------------------------------------------------
EmptyRequest == [cswp_buffer_alloc(BufferSize) EXCEPT
                    !.data = [i \in 1 .. CSWP_REQ_HEADER_SIZE |-> 0]]

Init ==
    /\ up = <<>> /\ down = <<>> /\ open = <<>>
    /\ InitServer
    /\ todo \in Sessions
    /\ c_pc = "next"
    /\ c_cur = <<>>
    /\ c_mode = BATCH_NONE
    /\ c_buf = EmptyRequest
    /\ c_pend = <<>>
    /\ c_rsp = Reader(<<>>)
    /\ c_res = CSWP_SUCCESS
    /\ conn = 0
    /\ connected = 0
    /\ got = <<>>

(* connect() makes a connection whether or not there is one already.       *)
connect ==
    /\ up' = Append(up, <<>>)
    /\ down' = Append(down, <<>>)
    /\ open' = Append(open, TRUE)
    /\ conn' = Len(open) + 1
disconnect ==
    /\ open' = IF conn > 0 THEN [open EXCEPT ![conn] = FALSE] ELSE open
    /\ conn' = 0
    /\ UNCHANGED <<up, down>>

Call(name) == c_pc = "next" /\ todo # <<>> /\ Head(todo).call = name
Prepare ==   \* cswp_client_prep_priv_cmd_data, and what is to be encoded
    /\ c_pc' = "encode"
    /\ c_cur' = Head(todo).cmds
    /\ c_mode' = Head(todo).mode
    /\ c_buf' = EmptyRequest
    /\ c_pend' = <<>>
    /\ got' = <<>>
    /\ UNCHANGED <<todo, c_rsp, c_res>>
Return == todo' = Tail(todo) /\ UNCHANGED <<c_pc, c_cur, c_mode, c_buf, c_pend, c_rsp, c_res, got>>

setup_cdebug == Call("connect") /\ connect /\ Return /\ UNCHANGED <<srvVars, connected>>
cleanup_cdebug == Call("disconnect") /\ disconnect /\ Return /\ UNCHANGED <<srvVars, connected>>
begin_request == Call("request") /\ Prepare /\ UNCHANGED <<netVars, srvVars, conn, connected>>

cswp_init ==
    /\ Call("init")
    /\ UNCHANGED srvVars
    /\ \/ /\ connected > 0
          /\ connected' = connected + 1
          /\ Return
          /\ UNCHANGED <<netVars, conn>>
       \/ /\ connected = 0
          /\ connect
          /\ Prepare
          /\ UNCHANGED connected

cswp_term_reconnecting ==
    Call("term") /\ connect /\ Prepare /\ UNCHANGED <<srvVars, connected>>

cswp_term ==
    /\ Call("term")
    /\ UNCHANGED srvVars
    /\ \/ /\ connected = 0
          /\ connect
          /\ Prepare
          /\ UNCHANGED connected
       \/ /\ connected > 1
          /\ connected' = connected - 1
          /\ Return
          /\ UNCHANGED <<netVars, conn>>
       \/ /\ connected = 1
          /\ connected' = 0
          /\ Prepare
          /\ UNCHANGED <<netVars, conn>>

(* The end of a call: the process goes on with the next one, or cleans up. *)
Finish(res) ==
    /\ c_res' = res
    /\ c_mode' = BATCH_NONE
    /\ c_pc' = "next"
    /\ todo' = IF res = CSWP_SUCCESS THEN Tail(todo) ELSE <<>>
    /\ connected' = IF Head(todo).call = "init" /\ res = CSWP_SUCCESS THEN 1 ELSE connected
    /\ IF res # CSWP_SUCCESS \/ Head(todo).call = "term" THEN disconnect
       ELSE UNCHANGED <<netVars, conn>>

encode_command ==
    /\ c_pc = "encode"
    /\ c_cur # <<>>
    /\ LET buf == Encode(c_buf, Head(c_cur).fields)
       IN  /\ c_buf' = buf
           /\ IF buf.res # CSWP_SUCCESS
                THEN /\ Finish(buf.res)
                     /\ UNCHANGED <<c_cur, c_pend>>
                ELSE /\ c_pend' = Append(c_pend, Head(c_cur))
                     /\ c_cur' = Tail(c_cur)
                     /\ UNCHANGED <<netVars, c_pc, todo, c_mode, c_res, conn, connected>>
    /\ UNCHANGED <<srvVars, c_rsp, got>>

(* The header is put right before the commands, into the space reserved    *)
(* for it.                                                                 *)
WithHeader(buf, hdr) ==
    LET reqOffset == CSWP_REQ_HEADER_SIZE - 4 - Len(hdr)
        reqSize == Len(buf.data) - reqOffset
    IN  fixed[4][reqSize] \o hdr \o SubSeq(buf.data, CSWP_REQ_HEADER_SIZE + 1, Len(buf.data))
HeaderModeFirst(buf, num_cmds, mode) == WithHeader(buf, <<mode>> \o varint[num_cmds])
RequestBytes(buf, num_cmds, mode) == WithHeader(buf, varint[num_cmds] \o <<mode>>)

cswp_client_transact_send ==
    /\ c_pc = "encode"
    /\ c_cur = <<>>
    /\ up' = [up EXCEPT ![conn] = @ \o RequestBytes(c_buf, Len(c_pend), c_mode)]
    /\ c_pc' = "receive"
    /\ UNCHANGED <<srvVars, down, open, todo, c_cur, c_mode, c_buf, c_pend, c_rsp, c_res,
                   conn, connected, got>>

(* A recv that returns 0 (and leaves the size field unread) is left out:   *)
(* the server answers each of these sessions' requests before it exits.    *)
cswp_client_transact_receive ==
    /\ c_pc = "receive"
    /\ down[conn] # <<>>
    /\ LET packet == Head(down[conn])
           n == IF Len(packet) <= BufferSize THEN Len(packet) ELSE BufferSize
           hdr == get_varint(get_uint32(Reader(SubSeq(packet, 1, n))))
           rest == SubSeq(packet, n + 1, Len(packet))
           left == [down EXCEPT ![conn] = (IF rest = <<>> THEN <<>> ELSE <<rest>>) \o Tail(@)]
       IN  /\ c_rsp' = hdr
           /\ IF hdr.out[1][1] > n \/ hdr.out[2][1] # Len(c_pend)
                THEN /\ Finish(CSWP_RESPONSE_SIZE_ERR)
                ELSE /\ down' = left
                     /\ c_pc' = "verify"
                     /\ UNCHANGED <<up, open, todo, c_mode, c_res, conn, connected>>
    /\ UNCHANGED <<srvVars, c_cur, c_buf, c_pend, got>>

(* What capabilityData holds when the server sends none is undefined.      *)
Undefined == {0, 255}
verify_next ==
    /\ c_pc = "verify"
    /\ Len(got) < Len(c_pend)
    /\ LET cmd == c_pend[Len(got) + 1]
       IN  \E r \in {cswp_client_verify_response(c_rsp, cmd)} :
             /\ c_rsp' = r
             /\ \E vals \in (IF Type(cmd) = CSWP_GET_DEVICE_CAPABILITIES /\ Len(r.out) = 1
                               THEN { Append(r.out, <<g>>) : g \in Undefined } ELSE {r.out}) :
                    got' = Append(got, [cmd |-> cmd, res |-> r.res, vals |-> vals])
             /\ IF r.res # CSWP_SUCCESS THEN Finish(r.res)
                ELSE UNCHANGED <<netVars, c_pc, todo, c_mode, c_res, conn, connected>>
    /\ UNCHANGED <<srvVars, c_cur, c_buf, c_pend>>

end_request ==
    /\ c_pc = "verify"
    /\ Len(got) = Len(c_pend)
    /\ Finish(CSWP_SUCCESS)
    /\ UNCHANGED <<srvVars, c_cur, c_buf, c_pend, c_rsp, got>>

(* The process ends, and with it every connection it has not closed. *)
exit ==
    /\ c_pc = "next"
    /\ todo = <<>>
    /\ c_pc' = "done"
    /\ open' = [c \in DOMAIN open |-> FALSE]
    /\ UNCHANGED <<up, down, srvVars, todo, c_cur, c_mode, c_buf, c_pend, c_rsp, c_res,
                   conn, connected, got>>

NextClient ==
    \/ setup_cdebug \/ cleanup_cdebug \/ begin_request \/ cswp_init \/ cswp_term
    \/ encode_command \/ cswp_client_transact_send \/ cswp_client_transact_receive
    \/ verify_next \/ end_request \/ exit

Ended == c_pc = "done" /\ s_pc = "exit"

Server == NextServer /\ UNCHANGED clientVars
Next == NextClient \/ Server \/ (Ended /\ UNCHANGED vars)

Spec == Init /\ [][Next]_vars /\ WF_vars(NextClient) /\ WF_vars(Server)
-----------------------------------------------------------------------------
(***************************************************************************)
(* Properties.                                                             *)
(***************************************************************************)

(* The two codecs of the repository agree: while the server works on a     *)
(* request from which the client cut nothing off, the commands its parser  *)
(* found in the bytes are the commands the client's encoders were called   *)
(* with, in order, with every argument, and the error mode is the client's *)
(* batch mode.  A register write may be cut off: cswp_device_reg_write     *)
(* does not look whether its pairs fit, and sends the request as if all of *)
(* them did.                                                               *)
ParsedAsSent ==
    s_pc = "run" /\ ~c_buf.cut =>
        /\ s_mode = c_mode
        /\ Len(s_cmds) = Len(c_pend)
        /\ \A i \in DOMAIN s_cmds :
               <<<<s_cmds[i].enc>>>> \o s_cmds[i].args
                   = [k \in DOMAIN c_pend[i].fields |-> c_pend[i].fields[k].val]

(* What each command asks this server for, said of the commands and not of *)
(* the bytes.                                                              *)
Meaning(cmd) ==
    LET dev == cmd.fields[2].val[1]
        ids == [i \in 1 .. Len(cmd.fields) - 3 |-> cmd.fields[i + 3].val[1]]
    IN  CASE Type(cmd) = CSWP_INIT -> <<<<ServerVersion>>, ServerID, <<ServerVersion>>>>
          [] Type(cmd) = CSWP_DEVICE_OPEN -> <<DevName[dev + 1]>>
          [] Type(cmd) = CSWP_GET_DEVICES ->
                 <<<<3>>>> \o FlattenSeq([d \in 1 .. 3 |-> <<DevName[d], DevType[d]>>])
          [] Type(cmd) = CSWP_GET_DEVICE_CAPABILITIES -> <<<<DevCaps[dev + 1]>>>>
          [] Type(cmd) = CSWP_REG_LIST -> <<<<0>>>>
          [] Type(cmd) = CSWP_REG_READ ->
                 <<<<Len(ids)>>>> \o [i \in DOMAIN ids |-> <<RegValue(dev, ids[i])>>]
          [] OTHER -> <<>>

RefusedByServer(cmd) ==
    \/ Type(cmd) = CSWP_REG_LIST /\ cmd.fields[2].val[1] = 0
    \/ Type(cmd) \in {CSWP_REG_READ, CSWP_REG_WRITE} /\ cmd.fields[2].val[1] = 1
    \/ Type(cmd) \in {CSWP_MEM_READ, CSWP_MEM_WRITE} /\ cmd.fields[2].val[1] > 1
    \/ Type(cmd) = CSWP_GET_DEVICE_CAPABILITIES /\ cmd.fields[2].val[1] > 2

(* What is on its way to the server, one read of the server can take. *)
RequestFits == \A c \in DOMAIN up : Len(up[c]) <= ReadSize

(* The response the server is building is a sequence of bytes, and the     *)
(* 32-bit size in front of it can hold its length.                         *)
Byte == { n \in Nat : n <= 255 }
InFourBytes(n) == n \div 16777216 <= 255
ResponseFits ==
    /\ s_resp.bytes \in Seq(Byte)
    /\ InFourBytes(Len(s_resp.bytes) + 4 + Len(encode_varint[s_resp.n]))

(* A command gets its own answer.  In a batch the responses stand one      *)
(* behind the other, and the server adds three for every device it opens   *)
(* or closes: whatever the client takes for the response to a command is   *)
(* what that command asked for, and a command fails only if the server     *)
(* refuses it or its answer exceeds the caller's buffer.  (A memory read   *)
(* returns as many bytes as the server says, never more than were asked    *)
(* for.)  The request fits the server's read, and the response they come   *)
(* in has a length its header can tell.                                    *)
OwnAnswer(ans) ==
    LET cmd == ans.cmd
        head == SubSeq(ans.vals, 1, Len(Meaning(cmd)))
    IN  IF Type(cmd) = CSWP_MEM_READ /\ ~RefusedByServer(cmd)
          THEN /\ ans.res \in {CSWP_SUCCESS, CSWP_OUTPUT_BUFFER_OVERFLOW}
               /\ ans.vals[2] = [k \in 1 .. Len(ans.vals[2]) |-> k % 256]
               /\ Len(ans.vals[2]) <= cmd.room
          ELSE IF ans.res = CSWP_SUCCESS THEN head = Meaning(cmd)
          ELSE \/ RefusedByServer(cmd)
               \/ ans.res = CSWP_OUTPUT_BUFFER_OVERFLOW /\ cmd.room < Meaning(cmd)[1][1]
AnswersOwnCommand == RequestFits /\ ResponseFits /\ \A i \in DOMAIN got : OwnAnswer(got[i])

(* Every session comes to its end on both sides: the process returns and   *)
(* the server has left its loop, because the session was terminated or     *)
(* because the client is gone.  Nobody waits for a message that the other  *)
(* side will never send.                                                   *)
Finishes == <>Ended
=============================================================================
