------------------------------ MODULE CswpBuffer ------------------------------
(***************************************************************************)
(* The message codec: CSWP_BUFFER (client/cdebug/cswp_buffer.c) and the    *)
(* layout of every request (cswp_client_commands.c, cswp_client_common.c,  *)
(* cswp_client_nv_ext_commands.c).                                         *)
(*                                                                         *)
(* A message is a sequence of bytes.  A layout is the sequence of fields   *)
(* an encoder puts, in order.  Every encoder stops at the first field that *)
(* does not fit, but cswp_device_reg_write goes on behind the head of its  *)
(* command.  Strings and payloads are byte sequences.                      *)
(***************************************************************************)
EXTENDS Naturals, Sequences, SequencesExt

(* Results, numbered as in cswp_types.h. *)
CSWP_SUCCESS == 0
CSWP_BUFFER_FULL == 16
CSWP_BUFFER_EMPTY == 17
CSWP_OUTPUT_BUFFER_OVERFLOW == 18

(* Op(x, 1), then Op(that, 2), ... up to n.  The CHOOSE has TLC evaluate    *)
(* each intermediate value once.                                           *)
Iterate(n, Op(_, _), x) ==
    LET f[i \in 0 .. n] ==
            IF i = 0 THEN x ELSE CHOOSE y \in { Op(z, i) : z \in {f[i - 1]} } : TRUE
    IN  f[n]
Times(n, Op(_), x) == Iterate(n, LAMBDA y, i : Op(y), x)
InTurn(kinds, Op(_, _), x) == Iterate(Len(kinds), LAMBDA y, i : Op(y, kinds[i]), x)

(* The bytes of a varint, least significant group of 7 bits first, and of  *)
(* an integer of w bytes, least significant byte first.                    *)
varint[n \in Nat] ==
    IF n <= 127 THEN <<n>> ELSE <<128 + (n % 128)>> \o varint[n \div 128]

fixed[w \in Nat] ==
    [n \in Nat |-> IF w = 0 THEN <<>> ELSE <<n % 256>> \o fixed[w - 1][n \div 256]]

(***************************************************************************)
(* Writing.  `data` is the used part of the buffer (a writer's pos is      *)
(* used), `res` the result of the first put that failed, and `cut` records *)
(* that a put failed whose result nobody looked at.                        *)
(***************************************************************************)
cswp_buffer_alloc(size) ==
    [size |-> size, data |-> <<>>, res |-> CSWP_SUCCESS, cut |-> FALSE]

put_data(buf, bytes) ==
    IF buf.res # CSWP_SUCCESS THEN buf
    ELSE IF buf.size - Len(buf.data) < Len(bytes) THEN [buf EXCEPT !.res = CSWP_BUFFER_FULL]
    ELSE [buf EXCEPT !.data = @ \o bytes]

put_uint8(buf, n) == put_data(buf, <<n>>)
put_uint32(buf, n) == put_data(buf, fixed[4][n])
put_uint64(buf, n) == put_data(buf, fixed[8][n])
put_varint(buf, n) == put_data(buf, varint[n])
put_string(buf, str) == put_data(put_varint(buf, Len(str)), str)

(* A field: its kind, and its value as a sequence. *)
V(n) == [kind |-> "varint", val |-> <<n>>]
W(n) == [kind |-> "uint32", val |-> <<n>>]
Q(n) == [kind |-> "uint64", val |-> <<n>>]
S(str) == [kind |-> "string", val |-> str]
D(bytes) == [kind |-> "data", val |-> bytes]

put(buf, f) ==
    CASE f.kind = "varint" -> put_varint(buf, f.val[1])
      [] f.kind = "uint32" -> put_uint32(buf, f.val[1])
      [] f.kind = "uint64" -> put_uint64(buf, f.val[1])
      [] f.kind = "string" -> put_string(buf, f.val)
      [] f.kind = "data" -> put_data(buf, f.val)

(* The result is dropped: what does not fit is left out, and the puts go on. *)
put_unchecked(buf, f) ==
    LET after == put([buf EXCEPT !.res = CSWP_SUCCESS], f)
    IN  [after EXCEPT !.res = buf.res, !.cut = @ \/ after.res # CSWP_SUCCESS]

(***************************************************************************)
(* The requests, field by field (cswp_types.h numbers the commands).       *)
(***************************************************************************)
CSWP_INIT == 1
CSWP_TERM == 2
CSWP_GET_DEVICES == 17
CSWP_DEVICE_OPEN == 256
CSWP_DEVICE_CLOSE == 257
CSWP_GET_DEVICE_CAPABILITIES == 260
CSWP_REG_LIST == 512
CSWP_REG_READ == 513
CSWP_REG_WRITE == 514
CSWP_MEM_READ == 768
CSWP_MEM_WRITE == 769

encode_command_header(type) == <<V(type)>>

encode_init_command(version, clientID) ==
    encode_command_header(CSWP_INIT) \o <<V(version), S(clientID)>>
encode_term_command == encode_command_header(CSWP_TERM)
encode_get_devices_command == encode_command_header(CSWP_GET_DEVICES)
encode_device_open_command(dev) ==
    encode_command_header(CSWP_DEVICE_OPEN) \o <<V(dev)>>
encode_device_close_command(dev) ==
    encode_command_header(CSWP_DEVICE_CLOSE) \o <<V(dev)>>
encode_get_device_capabilities_command(dev) ==
    encode_command_header(CSWP_GET_DEVICE_CAPABILITIES) \o <<V(dev)>>
encode_reg_list_command(dev) == encode_command_header(CSWP_REG_LIST) \o <<V(dev)>>
encode_reg_read_command(dev, ids) ==
    encode_command_header(CSWP_REG_READ) \o <<V(dev), V(Len(ids))>>
        \o [i \in DOMAIN ids |-> V(ids[i])]

encode_reg_write_command(dev, count) ==
    encode_command_header(CSWP_REG_WRITE) \o <<V(dev), V(count)>>

(* The pairs stand behind the head.  cswp_device_reg_write puts them       *)
(* itself, whether or not there is room.                                   *)
reg_write(dev, regs) ==
    encode_reg_write_command(dev, Len(regs))
        \o [k \in 1 .. 2 * Len(regs) |-> IF k % 2 = 1 THEN V(regs[(k + 1) \div 2].id)
                                           ELSE W(regs[k \div 2].value)]
InPairs(fields, i) == fields[1] = V(CSWP_REG_WRITE) /\ i > 3

encode_mem_read_command(dev, addr, size, access, flags) ==
    encode_command_header(CSWP_MEM_READ)
        \o <<V(dev), Q(addr), V(size), V(access), V(flags)>>
encode_mem_write_command(dev, addr, size, access, flags, data) ==
    encode_command_header(CSWP_MEM_WRITE)
        \o <<V(dev), Q(addr), V(size), V(access), V(flags), D(data)>>

(* A command, from its first field to its last. *)
put_nth(fields, buf, i) ==
    IF InPairs(fields, i) THEN put_unchecked(buf, fields[i]) ELSE put(buf, fields[i])
Encode(buf, fields) == Iterate(Len(fields), LAMBDA b, i : put_nth(fields, b, i), buf)

(***************************************************************************)
(* Reading.  `pos` bytes have been consumed, `out` holds the values read,  *)
(* each as a sequence, `res` the result of the first get that failed.      *)
(***************************************************************************)
Reader(bytes) == [data |-> bytes, pos |-> 0, out |-> <<>>, res |-> CSWP_SUCCESS]

Fail(r, res) == [r EXCEPT !.res = res]
Take(r, n, val) == [r EXCEPT !.pos = @ + n, !.out = Append(@, val)]
Left(r) == Len(r.data) - r.pos

(* Where the 7-bit groups that start behind pos may end, the first of      *)
(* these places, and the value of the groups up to there.                  *)
VarintEnds(bytes, pos, last) == { i \in pos + 1 .. last : bytes[i] <= 127 }
Least(places) == CHOOSE e \in places : \A f \in places : e <= f
VarintValue(bytes, pos, end) ==
    LET v[i \in pos + 1 .. end] == (bytes[i] % 128) + (IF i = end THEN 0 ELSE 128 * v[i + 1])
    IN  v[pos + 1]

get_varint(r) ==
    LET ends == VarintEnds(r.data, r.pos, Len(r.data))
        end == Least(ends)
    IN  IF r.res # CSWP_SUCCESS THEN r
        ELSE IF ends = {} THEN [Fail(r, CSWP_BUFFER_EMPTY) EXCEPT !.pos = Len(r.data)]
        ELSE Take(r, end - r.pos, <<VarintValue(r.data, r.pos, end)>>)

get_fixed(r, w) ==
    LET v[i \in 1 .. w] == r.data[r.pos + i] + (IF i = w THEN 0 ELSE 256 * v[i + 1])
    IN  IF r.res # CSWP_SUCCESS THEN r
        ELSE IF Left(r) < w THEN Fail(r, CSWP_BUFFER_EMPTY)
        ELSE Take(r, w, <<v[1]>>)
get_uint32(r) == get_fixed(r, 4)
get_uint64(r) == get_fixed(r, 8)

get_data(r, n) ==
    IF r.res # CSWP_SUCCESS THEN r
    ELSE IF Left(r) < n THEN Fail(r, CSWP_BUFFER_EMPTY)
    ELSE Take(r, n, SubSeq(r.data, r.pos + 1, r.pos + n))

LastValue(r) == r.out[Len(r.out)][1]
DropValue(r) == [r EXCEPT !.out = Front(@)]

(* A string that leaves no room for the terminator stays in the buffer,    *)
(* behind its length.                                                      *)
StringBody(l, strSize) ==
    IF l.res # CSWP_SUCCESS THEN l
    ELSE IF Left(l) < LastValue(l) THEN Fail(DropValue(l), CSWP_BUFFER_EMPTY)
    ELSE IF LastValue(l) >= strSize THEN Fail(DropValue(l), CSWP_OUTPUT_BUFFER_OVERFLOW)
    ELSE get_data(DropValue(l), LastValue(l))
get_string(r, strSize) ==
    InTurn(<<"length", "body">>,
           LAMBDA x, part : IF part = "length" THEN get_varint(x) ELSE StringBody(x, strSize), r)
=============================================================================
