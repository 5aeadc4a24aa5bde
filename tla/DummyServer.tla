----------------------------- MODULE DummyServer -----------------------------
(***************************************************************************)
(* ccu_dummy_server (client_utility/dummy_server_main.cpp): it accepts one *)
(* TCP connection, reads a request, parses all its commands, answers them  *)
(* one by one and sends the answers back in one response, until a client   *)
(* disconnects or terminates the session.                                  *)
(*                                                                         *)
(* The server has a parser and an encoder of its own; the codec of the     *)
(* client (CswpBuffer) is used here only for the field constructors.  A    *)
(* read returns what the client has written, up to the size of the         *)
(* server's buffer; TCP does not deliver less.  Names are one byte long.   *)
(***************************************************************************)
EXTENDS Integers, Sequences, CswpBuffer

CONSTANT ReadSize   \* sizeof(buffer) - 1: the most that one read returns

VARIABLES
    up,       \* up[c]: the bytes a client wrote to its connection c, not yet read
    down,     \* down[c]: the responses not yet received on connection c
    open,     \* open[c]: the client has not closed connection c
    s_pc,     \* where main() is: "accept", "read", "run", "send", "exit"
    s_cmds,   \* info_array
    s_mode,   \* error_mode
    s_i,      \* the command that is served next
    s_cancel, \* cancel
    s_running,\* running
    s_resp    \* resp_buffer with the number of responses in it

netVars == <<up, down, open>>
srvVars == <<s_pc, s_cmds, s_mode, s_i, s_cancel, s_running, s_resp>>

CSWP_CANCELLED == 2
CSWP_UNSUPPORTED == 35
CSWP_DEVICE_UNSUPPORTED == 36
CSWP_REG_FAILED == 512

-----------------------------------------------------------------------------
(* Encoding.  errcode is a byte, strings are preceded by their length. *)

encode_varint[n \in Nat] ==
    IF n >= 128 THEN <<128 + (n % 128)>> \o encode_varint[n \div 128] ELSE <<n>>
encode_uint32(n) ==
    <<n % 256, (n \div 256) % 256, (n \div 65536) % 256, (n \div 16777216) % 256>>
str_to_utf8_len_bytes(str) == encode_varint[Len(str)] \o str

(* Parsing reads the zero-filled buffer without looking at its length:     *)
(* r.data is the request, r.pos the offset, r.out what has been read.  (A  *)
(* cut-off request whose count leads beyond the 4096 bytes of the buffer   *)
(* reads foreign memory; no session here has so large a count.)  The       *)
(* groups of a varint are shifted as ints, which is exact for a value that *)
(* fits an int: sessions send no other.                                    *)
Buffered(r, i) == IF i <= Len(r.data) THEN r.data[i] ELSE 0

process_incoming_varint(r) ==
    LET bytes == [i \in r.pos + 1 .. r.pos + 10 |-> Buffered(r, i)]
        end == Least(VarintEnds(bytes, r.pos, r.pos + 10))
    IN  Take(r, end - r.pos, <<VarintValue(bytes, r.pos, end)>>)

process_incoming_bytes(r, n) == Take(r, n, [i \in 1 .. n |-> Buffered(r, r.pos + i)])
process_incoming_string(r) ==
    LET l == process_incoming_varint(r) IN process_incoming_bytes(DropValue(l), LastValue(l))

LittleEndian(r, w) ==
    LET v[i \in 1 .. w] == Buffered(r, r.pos + i) + (IF i = w THEN 0 ELSE 256 * v[i + 1])
    IN  v[1]
process_incoming_uint32(r) == Take(r, 4, <<LittleEndian(r, 4)>>)
process_incoming_uint64(r) == Take(r, 8, <<LittleEndian(r, 8)>>)

read_field(r, kind) ==
    CASE kind = "varint" -> process_incoming_varint(r)
      [] kind = "string" -> process_incoming_string(r)
      [] kind = "uint32" -> process_incoming_uint32(r)
      [] kind = "uint64" -> process_incoming_uint64(r)
read_fields(kinds, r) == InTurn(kinds, read_field, r)

(* The arguments of the command `enc`, read from r on.  Nothing is known   *)
(* of the length of any other command.  (The server also parses some that  *)
(* no caller here sends, such as CSWP_CLIENT_INFO: they are left out.)     *)
Arguments(enc, r) ==
    CASE enc = CSWP_INIT -> read_fields(<<"varint", "string">>, r)
      [] enc \in {CSWP_TERM, CSWP_GET_DEVICES} -> r
      [] enc \in {CSWP_DEVICE_OPEN, CSWP_DEVICE_CLOSE,
                  CSWP_GET_DEVICE_CAPABILITIES, CSWP_REG_LIST} -> read_fields(<<"varint">>, r)
      [] enc = CSWP_REG_READ ->
             LET head == read_fields(<<"varint", "varint">>, r)
             IN  Times(LastValue(head), process_incoming_varint, head)
      [] enc = CSWP_REG_WRITE ->
             LET head == read_fields(<<"varint", "varint">>, r)
             IN  Times(LastValue(head), LAMBDA x : read_fields(<<"varint", "uint32">>, x), head)
      [] enc \in {CSWP_MEM_READ, CSWP_MEM_WRITE} ->
             LET head == read_fields(<<"varint", "uint64", "varint", "varint", "varint">>, r)
             IN  IF enc = CSWP_MEM_READ THEN head
                 ELSE process_incoming_bytes(head, head.out[3][1])
      [] OTHER -> Fail(r, CSWP_UNSUPPORTED)

(* One entry of info_array: `data` is the request from the arguments on.   *)
Command(enc, before, after) ==
    [enc |-> enc, args |-> after.out,
     data |-> SubSeq(before.data, before.pos + 1, Len(before.data))]

(* A command that is not known ends the parsing: the server serves those   *)
(* in front of it.                                                         *)
process_incoming_data(bytes) ==
    LET start == read_fields(<<"uint32", "varint">>, Reader(bytes))
        ncmds == LastValue(start)
        next(a) ==
            LET c == process_incoming_varint([a.r EXCEPT !.out = <<>>])
                args == Arguments(LastValue(c), [c EXCEPT !.out = <<>>])
            IN  IF args.res # CSWP_SUCCESS THEN a
                ELSE [r |-> args, cmds |-> Append(a.cmds, Command(LastValue(c), c, args))]
    IN  [mode |-> Buffered(start, start.pos + 1),
         cmds |-> Times(ncmds, next, [r |-> [start EXCEPT !.pos = @ + 1], cmds |-> <<>>]).cmds]

apnum(cmd) == cmd.args[1][1]

-----------------------------------------------------------------------------
(* Answering: the result of a handler and the bytes it adds.               *)

Answer(bytes) == [res |-> CSWP_SUCCESS, bytes |-> bytes]
Refuse(res) == [res |-> res, bytes |-> <<>>]
ok(cmd) == encode_varint[cmd.enc] \o <<0>>

DevName == <<<<65>>, <<83>>, <<67>>>>      \* "APB Bridge", "System Memory Bridge", ...
DevType == <<<<109>>, <<109>>, <<110>>>>   \* "memory", "memory", "nvctlp"
ServerID == <<86>>
ServerVersion == 256

fudge_init_cswp(cmd) ==
    Answer(ok(cmd) \o encode_varint[ServerVersion] \o str_to_utf8_len_bytes(ServerID)
             \o encode_varint[ServerVersion])
fudge_term_cswp(cmd) == Answer(ok(cmd))
fudge_get_devices(cmd) ==
    Answer(ok(cmd) \o <<3>> \o FlattenSeq([d \in 1 .. 3 |->
        str_to_utf8_len_bytes(DevName[d]) \o str_to_utf8_len_bytes(DevType[d])]))

(* Opening or closing one device answers for all three of them. *)
fudge_open_dev(cmd) ==
    Answer(FlattenSeq([d \in 1 .. 3 |-> ok(cmd) \o str_to_utf8_len_bytes(DevName[d])]))
fudge_close_dev(cmd) == Answer(ok(cmd) \o ok(cmd) \o ok(cmd))

DevCaps == <<515, 514, 1>>
fudge_get_dev_cap(cmd) ==
    IF apnum(cmd) > 2 THEN Refuse(-1)
    ELSE Answer(ok(cmd) \o encode_varint[DevCaps[apnum(cmd) + 1]]
                  \o (IF apnum(cmd) # 1 THEN encode_varint[0] ELSE <<>>))
fudge_get_reg_list(cmd) ==
    IF apnum(cmd) \in {1, 2} THEN Answer(ok(cmd) \o <<0>>)
    ELSE Refuse(CSWP_DEVICE_UNSUPPORTED)

RegValue(dev, id) ==
    CASE dev = 0 /\ id = 3580 -> 1148649478
      [] dev = 0 /\ id \in {3328, 3576, 1314258944} -> 0
      [] dev # 0 /\ id = 3580 -> 0
      [] OTHER -> 16909060

fudge_get_dev_reg(cmd) ==
    LET count == read_fields(<<"varint", "varint">>, Reader(cmd.data))
        ids == Times(LastValue(count), process_incoming_varint, [count EXCEPT !.out = <<>>]).out
    IN  IF apnum(cmd) \notin {0, 2} THEN Refuse(CSWP_REG_FAILED)
        ELSE Answer(ok(cmd) \o encode_varint[LastValue(count)] \o FlattenSeq(
                 [i \in DOMAIN ids |-> encode_uint32(RegValue(apnum(cmd), ids[i][1]))]))
fudge_set_dev_reg(cmd) ==
    IF apnum(cmd) \notin {0, 2} THEN Refuse(CSWP_REG_FAILED) ELSE Answer(ok(cmd))

(* The address is skipped as if it were a varint, so the size is what its  *)
(* remaining bytes say.                                                    *)
fudge_get_dev_mem(cmd) ==
    LET size == LastValue(read_fields(<<"varint", "varint", "varint">>, Reader(cmd.data)))
    IN  IF apnum(cmd) \notin {0, 1} THEN Refuse(-1)
        ELSE Answer(ok(cmd) \o encode_varint[size] \o [i \in 1 .. size |-> i % 256])
fudge_set_dev_mem(cmd) ==
    IF apnum(cmd) \notin {0, 1} THEN Refuse(-1) ELSE Answer(ok(cmd))

funcMap(cmd) ==
    CASE cmd.enc = CSWP_INIT -> fudge_init_cswp(cmd)
      [] cmd.enc = CSWP_TERM -> fudge_term_cswp(cmd)
      [] cmd.enc = CSWP_GET_DEVICES -> fudge_get_devices(cmd)
      [] cmd.enc = CSWP_DEVICE_OPEN -> fudge_open_dev(cmd)
      [] cmd.enc = CSWP_DEVICE_CLOSE -> fudge_close_dev(cmd)
      [] cmd.enc = CSWP_GET_DEVICE_CAPABILITIES -> fudge_get_dev_cap(cmd)
      [] cmd.enc = CSWP_REG_LIST -> fudge_get_reg_list(cmd)
      [] cmd.enc = CSWP_REG_READ -> fudge_get_dev_reg(cmd)
      [] cmd.enc = CSWP_REG_WRITE -> fudge_set_dev_reg(cmd)
      [] cmd.enc = CSWP_MEM_READ -> fudge_get_dev_mem(cmd)
      [] cmd.enc = CSWP_MEM_WRITE -> fudge_set_dev_mem(cmd)
      [] OTHER -> Refuse(CSWP_UNSUPPORTED)

(* A result of -1 goes out as the varint of 2^64 - 1.  The device numbers  *)
(* that ccu accepts do not lead to it.                                     *)
response_err(cmd, res) ==
    encode_varint[cmd.enc]
        \o (IF res = -1 THEN [i \in 1 .. 10 |-> IF i < 10 THEN 255 ELSE 1]
            ELSE encode_varint[res])
response_add(resp, bytes) == [bytes |-> resp.bytes \o bytes, n |-> resp.n + 1]
NoResponse == [bytes |-> <<>>, n |-> 0]

-----------------------------------------------------------------------------
(* main() *)

InitServer ==
    /\ s_pc = "accept"
    /\ s_cmds = <<>>
    /\ s_mode = 0
    /\ s_i = 1
    /\ s_cancel = FALSE
    /\ s_running = TRUE
    /\ s_resp = NoResponse

(* The first connection is the only one the server ever accepts. *)
start_server ==
    /\ s_pc = "accept"
    /\ DOMAIN open # {}
    /\ s_pc' = "read"
    /\ UNCHANGED <<netVars, s_cmds, s_mode, s_i, s_cancel, s_running, s_resp>>

(* What a read returns of the bytes in s, and what it leaves. *)
Received(s) == IF Len(s) <= ReadSize THEN s ELSE SubSeq(s, 1, ReadSize)
Unread(s) == IF Len(s) <= ReadSize THEN <<>> ELSE SubSeq(s, ReadSize + 1, Len(s))

read_request ==
    /\ s_pc = "read"
    /\ up[1] # <<>>
    /\ up' = [up EXCEPT ![1] = Unread(@)]
    /\ IF Len(Received(up[1])) <= 6
         THEN /\ s_pc' = "exit"
              /\ UNCHANGED <<s_cmds, s_mode>>
         ELSE \E msg \in {process_incoming_data(Received(up[1]))} :
                /\ s_pc' = "run"
                /\ s_cmds' = msg.cmds
                /\ s_mode' = msg.mode
    /\ s_i' = 1
    /\ s_cancel' = FALSE
    /\ UNCHANGED <<down, open, s_running, s_resp>>

serve_command ==
    /\ s_pc = "run"
    /\ s_i <= Len(s_cmds)
    /\ LET cmd == s_cmds[s_i]
       IN  \E a \in {IF s_cancel THEN Refuse(CSWP_CANCELLED) ELSE funcMap(cmd)} :
             LET failed == a.res # CSWP_SUCCESS
             IN  /\ s_resp' = response_add(s_resp,
                                 IF failed THEN response_err(cmd, a.res) ELSE a.bytes)
                 /\ s_cancel' = (s_cancel \/ (failed /\ s_mode # 0) \/ cmd.enc = CSWP_TERM)
                 /\ s_running' = (s_running /\ cmd.enc # CSWP_TERM)
    /\ s_i' = s_i + 1
    /\ UNCHANGED <<netVars, s_pc, s_cmds, s_mode>>

response_send ==
    /\ s_pc = "run"
    /\ s_i > Len(s_cmds)
    /\ LET count == encode_varint[s_resp.n]
           packet == encode_uint32(Len(s_resp.bytes) + 4 + Len(count)) \o count \o s_resp.bytes
       IN  down' = IF s_resp.n = 0 THEN down ELSE [down EXCEPT ![1] = Append(@, packet)]
    /\ s_resp' = NoResponse
    /\ s_pc' = IF s_running THEN "read" ELSE "exit"
    /\ UNCHANGED <<up, open, s_cmds, s_mode, s_i, s_cancel, s_running>>

(* read() returns 0: the client closed the connection. *)
client_disconnected ==
    /\ s_pc = "read"
    /\ up[1] = <<>>
    /\ ~open[1]
    /\ s_pc' = "exit"
    /\ UNCHANGED <<netVars, s_cmds, s_mode, s_i, s_cancel, s_running, s_resp>>

NextServer ==
    \/ start_server \/ read_request \/ serve_command \/ response_send
    \/ client_disconnected
=============================================================================
