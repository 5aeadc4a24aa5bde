# TLA+ models of the CSWP client

The repository is the host side of CSWP, the CoreSight Wire Protocol: a client
that debugs a target (registers, memory) and receives streaming trace from it,
over USB or TCP, and a command line utility, `ccu`, on top of both. These
modules model the parts in which threads, transfers, sessions and messages
interact.
TLC checks them on small instances; TLAPS proves the main invariants for all
values of the constants.

## 1. Inventory

| component | code | state | operations | what makes it correct |
|---|---|---|---|---|
| USB device | `client/plat_usb_if/usb_device_linux.cpp` | queued, in-flight and completed transfers, one completion flag for all threads | submit, cancel, completion callback, `completeTransfer`, `completeTransfer_forToken` | every token handed out comes back exactly once, to the thread that waits for it; every call returns |
| transport | `client/cdebug/cswp_client_plat_if.cpp` | response queue, async queue, listen thread and its flag | connect, disconnect, send, receive, receive_async, listen | a response answers the request before it; no thread stays in a closed device |
| protocol client | `client/cdebug/cswp_client.c` | request buffer, `num_cmds`, pending list, batch mode, handle count | one call per command, batch begin/end, init, term | commands run once and in order; results go to their own caller; the session lives as long as a handle |
| message codec | `client/cdebug/cswp_buffer.c`, `cswp_client_commands.c` | a buffer and a position | get/put of varints, strings, integers; encode/decode per command | decode inverts encode; nothing passes the end of the buffer |
| streaming trace | `client/cstrace/*.cpp` | sink status, four token queues per sink, USB tokens, a data thread | Connect, Attach, SubmitEventBuffer, Start, WaitForEvent, Stop, Detach, Disconnect | a buffer is never lost, duplicated or filled by another's read; the trace keeps its order; teardown ends and leaves no thread behind |
| ccu | `client_utility/ccu_*.cpp`, `main.cpp` | chunk and sub-requests of a memory command, capture loop | one function per command | a memory command serves its range once, in aligned accesses, in messages that fit; a capture returns its buffers |
| dummy server | `client_utility/dummy_server_main.cpp` | one connection, the commands of a request, the response so far | accept, read and parse, answer a command, send | its parser and the client's encoders agree; each command gets its answer; it ends when the session or the client does |
| C wrapper, sync primitives | `cdebug_c_wrapper.cpp`, `plat_sync_prim.h` | none | forwards | - |

How they interact. `ccu` calls `CSWPBase` (transport) whose member functions
call the C client; the client calls the transport back through a table of five
function pointers. The transport and the trace client each own a `USBDevice`.
The transport's two threads (the caller and `listen`) use one device with
`completeTransfer_forToken`; the trace client's two threads use another, the
client thread to submit and cancel, the data thread to collect with
`completeTransfer`. libusb runs the completion callback on whichever thread is
in its event loop. Over TCP there is no thread: `send` and `recv` block, and at
the other end the dummy server reads a request, answers its commands in one
response, and reads on.

What is hard: a shared wake-up flag; completions that are taken by the wrong
thread; locks released around waits; timeouts racing late answers; threads
joined while they wait for I/O that nobody cancels; state that outlives a
session; batches that fail half way; two codecs written apart from each other;
two ends that each wait for the other; requests cut at buffer limits. `PROJECT.json` lists
these hazards at their lines, with the properties that cover them.

## 2. Modules

| module | models | state <-> code |
|---|---|---|
| `TransferPool` | what `usb_device.h` promises | abstract: tokens used, owed, given back |
| `UsbDevice` | `USBDeviceLinux` | variables carry the member's name without `m_`; `bus`, `cancelled`, `eventsLock` are libusb; `pc`/`arg` the threads |
| `CswpTransport` | `CSWPBase` over USB | `respQ`, `asyncQ`, `running` (`readThread_running`), `joinable` (`readThread`), `pc`/`lpc` the two threads; `wire`, `cmds` the server's side |
| `CswpClient` | `cswp_client.c`, with ccu's connect and disconnect | `connected`, `batch`, `cmdBuf`, `numCmds`, `pending` are fields of `cswp_client_priv_t`; `session`, `executed`, `inbox` the server |
| `StreamingTrace` | `StreamingTraceBase`, `StreamingTraceUSB`, `StreamingTraceUSBClient` | `queued`, `pending`, `events`, `completed`, `status` are the sink's; `dataTokens`, `ctrl` the USB layer's; `dpc`/`cpc` the data and client threads |
| `CswpBuffer` | `cswp_buffer.c`, the encoders of `cswp_client_commands.c`, and the register pairs that `cswp_device_reg_write` puts itself | operators on byte sequences; a buffer is its size, its bytes, the first error, and whether a put failed that nobody looked at (`cut`) |
| `DummyServer` | `dummy_server_main.cpp` | `up`, `down`, `open` are the sockets; `s_...` the locals of `main()` and the response buffer |
| `CswpWire` | `cswp_client.c` over TCP, the calls of each ccu command, against `DummyServer` | `c_...` the fields of `cswp_client_priv_t`; `conn` is `m_socket_fd`; `todo` the calls the process still makes |
| `WireMC` | - | the sessions that are run |
| `MemTransfer` | what a memory command promises its user | abstract: direction, range, bytes moved, status |
| `CcuMemory` | `get_dev_mem`, `dump_dev_mem`, `set_dev_mem`, `fill_dev_mem` with their argument checks | variables carry the names of `mem_cmd_t` and of the locals of `create_mem_subreqs`; `req_used`, `rsp_used` count the client's buffers |
| `CcuMemoryMC` | - | addresses and sizes |
| `SequenceFacts` | - | lemmas on sequences used by the proofs |
| `UsbDevice_proofs`, `UsbDeviceOrder_proofs`, `CswpTransport_proofs`, `CswpClient_proofs`, `StreamingTrace_proofs`, `CswpWire_proofs`, `CcuMemory_proofs` | - | theorems, one module per component, two for the USB device |

Steps. A section under the component's mutex is one step. The mutex is
released around `libusb_handle_events_completed`, a wait on a condition
variable and a join, and each of these is a step boundary with a program
counter. `listen` tests its flag, submits and collects in three steps, because
`disconnect` may come between. Operators whose names end in what they omit
(`EraseForgotten`, `SortInFront`, `CancelNothing`, ...) stand next to the
definition they are a faulty version of; they are used by no specification
and serve to show that the properties can fail.

How the modules rest on each other. `UsbDevice` refines `TransferPool` as long
as no endpoint has more than `MAX_IN_FLIGHT` (16) transfers outstanding.
`CswpTransport` (one write and one read at a time) and `StreamingTrace` use
their device through that promise. `StreamingTrace!ReadsBounded` is the
condition on the trace side: a sink has at most `dataBufferCount` data reads
open. `CswpClient` uses the transport through what `CswpTransport` checks:
responses in order, possibly late, possibly never. `CswpWire` composes the
client with the server and looks at what `CswpClient` leaves out, the bytes.
`CcuMemory` uses the client through its promise (a batch that succeeds was
executed whole, and one that fails, up to some command) and refines
`MemTransfer`.

Abstractions.
- `UsbDevice`: payloads and lengths are left out; the per-endpoint deques are
  sets, since the code only searches, counts and cancels them; a token is given
  out once (32-bit wrap-around is out of reach). libusb is external: per
  endpoint, first submitted is first finished; one thread at a time handles
  events; leaving wakes the others. The unlock of an unlocked mutex when
  `completeTransfer` throws is taken as harmless.
- `CswpTransport`: messages are numbers. This is the USB branch; the TCP branch
  (a blocking socket, no thread) is in `CswpWire`.
- `CswpClient`: a command's number stands for its arguments and for the
  caller's output buffers. An encoding failure is `commandTooLarge`; a decoding
  failure a command outside the `fits` of `verify_response`. Encoding is whole
  or nothing here: that a register write that does not fit is counted and sent
  all the same is a matter of bytes, and in `CswpBuffer` and `CswpWire`. Callers
  pair batch begin and end, call init and term outside batches, and drop the
  client after an encoding failure inside a batch, as all callers in the
  repository do.
- `StreamingTrace`: one sink and one trace endpoint; a data read stands under
  the token of the buffer it carries. A USB token also names the device object
  it came from, because tokens start at 0 again in each session. Callers start
  a sink only while it has its endpoint (`Start`), and attach one that has none.
  A control read that the device refuses while Detach drains throws out of
  Detach: the endpoint and the queues stay until the next Detach or Disconnect.
  Flush, thread creation failure and configuration requests are left out.
- `CswpBuffer`, `DummyServer`, `CswpWire`: names and texts are one byte long;
  numbers are unbounded, the values in use are below 2^64. The server shifts the
  groups of a varint as ints (`dummy_server_main.cpp:370`), so its parser is
  exact for varints below 2^31; the sessions send no others. The bytes of a
  request arrive together and one read of the server takes at most `ReadSize` of
  them (4095 in the code); the rest stays for the next read. A message split by
  the network is outside the model: neither end handles it. `BufferAssumption`:
  the client's buffer holds the 15 bytes it keeps for the header (it has 16384).
  `cswp_device_reg_write` ignores whether its id/value pairs fit: what does not
  is left out (`put_unchecked`), the command keeps its full count, and the call
  reports the server's success. What `capabilityData` holds when the server
  sends none is either of two values. The dummy server ignores lengths and reads
  past the request into its zeroed buffer, and so does its model; a count that
  leads beyond the 4096 bytes of the buffer is not modelled. A command it does
  not know ends the parsing, and those in front are served (the commands that
  only the server knows, such as `CLIENT_INFO` and `MEM_POLL`, count as unknown
  here; nothing sends them). It answers -1 for a device that has no capabilities
  or memory, encoded as the varint of 2^64 - 1; ccu's argument checks keep such
  device numbers away. It skips the
  address of a memory read as a varint and answers with the size it finds there;
  `AnswersOwnCommand` therefore bounds the bytes of a read and does not count
  them. Not modelled because no session reaches them: a `recv` that returns 0
  (the size field is then uninitialised), and the register descriptions of
  `REG_LIST` (`cswp_client.c:875-944`), whose request the server refuses.
- `CcuMemory`: the data is abstracted to addresses: place `k` of `rw_values`
  holds the byte of address `rw_values[k]`, for a write the byte that went
  there. A write of the batch moves all its bytes or fails. A read may be
  answered with fewer bytes than it asked for (by each number in `Missing`):
  `cswp_device_mem_read_complete` accepts that and `ccu` does not look at
  `bytesRead`, so the last places of the sub-request keep what they held
  (`Left`) and the command goes on. One that is answered with more is cut to the
  caller's buffer and fails. Results of the cleanup are kept as the code keeps
  them.

## 3. Runs

Passing runs.
- `usb_by_token` - two threads, two endpoints, each thread submits and waits
  for its own token. Shows that rotating the completed queue and sharing
  `m_completedFlag` loses and mixes up nothing (`EveryTokenAccounted`,
  `ImplementsPool`), and that the shared flag never leaves a thread asleep
  (`CallReturns`).
- `usb_reaper` - one thread submits up to three transfers with room for one,
  and cancels; another collects. Parked transfers are not lost, miscounted or
  overtaken (`NoLostCompletion`, `PendingIsOutstanding`, `DataInOrder`).
- `transport_threads` - client, listen thread and server with three commands,
  two async messages, three connects. `StreamsInOrder` and `InStep` say that
  nothing is reordered and that, until a send or receive fails, responses
  answer the last request; `ListenerGone` that the thread never outlives its
  device; `DisconnectReturns` and `ReceiveReturns` that both calls end.
- `client_calls` - three commands, two handles, with failing and half-failing
  sends, late responses and partial batches.
- `trace_session` - one sink with room for two reads, three buffers, two
  sessions, with USB faults. Buffers, order, bound and teardown, that the data
  thread always has a read to wait for (`ReadBehindBuffer`), and that Stop
  returns the buffers, Disconnect returns, and Detach after Stop returns.
- `wire_session` - one process per behaviour: the commands of
  `tests/ccu_tcp/ccu_over_socket_test.sh` with two-word registers and batches of
  memory accesses added, and library sessions with several handles, a refused
  command inside a batch, output buffers that are too small, a batch that
  exceeds the request buffer, and two register writes that do. `ParsedAsSent`
  compares what the server parsed with what the client was asked to encode, for
  requests from which nothing was cut off. It does not hold of the two register
  writes: alone, one is answered with success although its last pairs were never
  sent; with a command behind it, the server takes that command's bytes for the
  missing pairs, meets an unknown command, and the client reports a response of
  the wrong size. `AnswersOwnCommand` what the client
  decoded with what the command means, also where the server puts three
  responses for one, that a request fits one read of the server (`RequestFits`)
  and that a response's length fits the size in front of it (`ResponseFits`);
  `Finishes` says both ends come to an end.
- `ccu_memory` - the four commands on both devices with every alignment and
  sizes around each limit. `SubreqsTile`, `AccessAligned`: the splitting.
  `ReadsFit`: get, dump and set never exceed the buffers. `ImplementsTransfer`:
  with chunks, batches, failures anywhere and reads answered short (by 3
  bytes, or with none at all, in any sub-request), a command is one transfer: each byte
  once and at its own place, a write that succeeds is complete, and a read lacks
  only what the server left out. ccu reports such a read as successful.

Runs that show a disagreement between the code and what it says of itself
(each is a finding in `PROJECT.json`).
- `transport_stale` - a response that comes after its receive timed out is
  returned for the next request.
- `client_continue` - in a continue-on-error batch the results of commands
  behind one that the server could not execute are dropped, although they were
  executed.
- `trace_detach` - Detach of a sink that was not stopped waits for a thread
  that nobody unblocks.
- `wire_term` - `term_cswp` opens a connection and `cswp_term`, which counts no
  handle, opens another; the server serves the first and the client waits on the
  second for ever. (Over USB the second connect replaces the device under the
  read thread and assigns to its joinable `std::thread`, which ends the program:
  `connect` of `CswpTransport` with `pc = "terminated"`.)
- `ccu_fill` - with the constants of the code, a `fill_dev1_mem` of 16351 bytes
  (or with a last chunk of that size) is split into four writes whose headers no
  longer fit the request buffer, and fails with `CSWP_BUFFER_FULL`.

Four more disagreements are in the models, at their lines under "hazards": a
parked transfer booked under another endpoint (`usb_device_linux.cpp:551`, needs
more than 16 outstanding transfers), a listen thread that failed and is never
joined (`cswp_client_plat_if.cpp:101`), register pairs that are dropped without
a word (`cswp_client.c:1046`), and tokens of dropped reads that make
the next session's data thread end (`cstrace_base.cpp:94`).

Bounds. `MaxToken`, `MaxCmd`, `MaxAsync`, `MaxConnect`, `MaxId`, `MaxBuf` and
`MaxHandles` cap counters that the code increments without limit. They are
large enough for the cases of interest: more tokens than threads (a second
call after a foreign completion was rotated), three commands (a late response, the request that
gets it, and the one after), a second session after a failed one, a third
buffer behind two open reads, a batch of three with the failure in the middle.
`MaxInFlight` is 1 instead of 16, so that parking happens; the proofs cover
every value. Deadlock checking is off because the counters end and because an
idle client is a legal final state. `CswpWire` has no counter: a session is
finite, and the set of sessions is the bound; its request and response buffers
have 160 bytes, so that a batch or a register write can exceed them, and
`ReadSize` is the 4095 of the code. `CcuMemory` is checked with a
chunk of 64 and a buffer of 96 bytes, the same 32 bytes apart as 16352 and 16384,
and maximal sizes of 76 and 144, one chunk and a bit and two chunks and a bit;
the theorems cover all constants, the real ones among them. Deadlock is checked
in both: a process that stops without having ended is an error.

Fairness. `UsbDevice`: a thread inside `completeTransfer_forToken` keeps being
scheduled; libusb finishes what it holds, as every transfer waited for by token
has a 1 s timeout (strong fairness, because threads take turns at the event
lock); and its 60 s limit ends an empty poll. `CswpTransport`: both threads run,
a read has a 1 s timeout, and the deadline of `receive` passes
(`CSWP_TIMEOUT_MS`, 2 s). `StreamingTrace`: both threads run and a cancelled
read finishes. A data read that is not cancelled has no timeout and gets no
fairness: the target may have no trace to send. The control read may time out
and be asked for again for ever, so it gets none either. `CswpWire`: client and
server are two processes that run whenever they can. `CswpClient` and
`CcuMemory` state no liveness.

## 4. Proofs

`UsbDevice_proofs`. `TypeCorrect` needs `ConstantsAssumption` only. The others
also assume `Burst <= MaxInFlight`: callers stay within the limit.
`EveryTokenAccounted` is, together with `TypeOK`, the inductive invariant: an
accepted token is in exactly one of the in-flight book, the completed queue and
the reported list, the book of each endpoint is what libusb holds for it, the
counter is the size of the books, and nothing is parked. The last conjunct is
what makes it inductive: with a parked transfer the callback books it under the
wrong endpoint. `NoLostCompletion` and
`PendingIsOutstanding` follow from it, and `DeviceImplementsPool` shows that
every step is a step of `TransferPool` or a stutter under the mapping used =
`0 .. nextToken - 1`, pending = `Held` (parked, booked as in flight, or
completed), returned = the reported tokens.

`UsbDeviceOrder_proofs`: the device as the trace client uses it, where threads
collect with `completeTransfer` only (`TokenCaller = {}`; a caller by token may
take any of its own). `DataInOrder` speaks of the reported list. `OrderInv`
carries it back through the stages a transfer passes: parked, with libusb,
completed, reported. Each stage is in order per endpoint and every stage is
older than the one behind it; of the completed and reported transfers only
those that moved data count, because a cancel puts parked transfers into the
completed queue in front of older ones still with libusb. The step that needs
more is a submit: it goes to libusb directly, past the parked ones
(`RoomMeansNoneParked`). Two theorems supply that fact. `DataOrderWithinLimit`
assumes `Burst <= MaxInFlight`, any number of endpoints: nothing is parked.
`DataOrderParked` allows any number of outstanding transfers, on a device with
one endpoint (`OneEndpoint`; with two, a parked transfer is booked under the
wrong one) and a libusb that refuses no parked transfer (`NoRefusal`; a refused
one is freed and forgotten by the callback). `ParkedAccounted` is its inductive
invariant: `EveryTokenAccounted` with the parked transfers as a fourth place,
and transfers parked only while libusb holds `MAX_IN_FLIGHT`.
`CompletionsKeptParked` and `PendingCountsParked` follow from it: these are the
statements of the run `usb_reaper`, for every `MAX_IN_FLIGHT`. The premises are
those of the run, where libusb takes one parked transfer and room is for one.

`CswpTransport_proofs`. `ListenerNeverOutlivesDevice`: the inductive
strengthening ties the thread, the running flag, the joinable thread object and
the client's program counter together; the difficult step is a `disconnect`
that finds the flag already cleared, where the failed listen thread must be
gone already. `ResponsesInStep`: while nothing has failed (`~doubtful`), either
nothing is on its way (`Quiet`) or exactly one command, message or queued
response, that of `lastSent`, and the client waits for it (`OneReply`);
`Aligned` says so. `BothStreamsInOrder` does not depend on success: through
timeouts, failures and reconnects, what is returned, queued, on the wire and
still with the server are four stages (`Stages`), each increasing, each below
the one behind it; `OrderInv` adds to `StreamsInOrder` that all numbers under
way are bounded by the last one given out, which is what keeps the next command
or async message at the back.

`CswpClient_proofs`. One inductive invariant, `Inv`, gives six theorems, for any
number of commands and handles and with any send, receive or command failing:
`TypeCorrect`, `RequestsHonest`, `NeverSentAgain`, `RepliesMatched`,
`SuccessHonest`, `SessionHeld`. The properties need each other, and three facts
more. A batch holds commands that were given their number but not yet sent, so
what has been executed or answered must be known to be older than those, and
those older than the next number (`BatchInv`, `NumbersInv`). Batches hold no
`INIT` or `TERM`, so only a call of its own changes the session. And until
something fails no response is left in the transport (`NothingLeft`), so the one
received is the one to the request just sent. `DoneFacts` says what the server
executes of a request in each error mode, and the lemmas on `verify_response`
which prefix of the pending list is filled.

`StreamingTrace_proofs`. The types are not inductive alone: the data thread
takes the head of `pending` when a read finishes, so it must be known that a
finished read has a pending buffer. `ReadInv` says so: while the thread runs,
`pending` is the list of open reads; after a failure there are at most as many
reads as pending buffers; `pending` is within `dataBufferCount`; a sink without
endpoint is empty and not active, so that a new thread starts from nothing; and
Detach drains only when no thread is left. `TypeCorrect`,
`EveryBufferHasItsRead` and `OpenReadsBounded` follow. `ThreadEndsBeforeDevice`
is inductive as it stands. `NoBufferLost` and `TraceInOrder` rest on a second
invariant, `BufferInv`. The buffers given to the library pass through the open
ones (`pending` then `queued`, one list in the order of submission), the events
and the completed list. `Sound` says that the open list is increasing; that a
completed buffer with data has its own read's data, is older than every open
buffer and newer than the last one given back; that no buffer is in two places
or twice in one; and that all are older than the next token. `NoneLost` is the
last conjunct of `BuffersAccounted`. It is the age relation between the
completed and the open buffers that `StreamIntact` lacks: without it the next
finished read could be put behind a newer one. The steps are lemmas on what a
finished read, Stop, and `WaitForEvent` do to a sound library. The only
assumption is `TraceAssumption`.

`CcuMemory_proofs`. The assumption on the constants is what `ccu_in.h` gives:
the chunk is a multiple of 8 and 32 bytes less than the buffer, a get is smaller
than a chunk, `rw_values` holds the largest command. None of the properties is
inductive alone. `Inv` adds that what is left of the command (`ArgsOK`) and of
the chunk (`SplitOK`) is again an address and a size the argument checks would
accept (a multiple of 8 in front of them changes no alignment), that k
sub-requests leave fewer than 8, 4, 2 and 1 bytes, hence at most four of them;
that addresses and places advance together (`ChunkOK`); that the buffers hold at
most 16 and 6 bytes of header per command besides the data (`BuffersOK`); and
that `rw_values` is the image of exactly the places in front of the next one,
with nothing missing in a write (`ImageOK`). There is one lemma per action.
`SubrequestsTileTheChunk`, `AccessesAligned` and `ReadsNeverOverflow` follow, and `CommandIsOneTransfer`
maps every step to a step of `MemTransfer` or a stutter. `BuffersOK` also shows
where `FillFits` fails: 15 + 4 * 13 bytes of headers and more are not 32.

`CswpWire_proofs`. The codecs are recursive and their inputs unbounded, so the
first part supplies induction and recursion: the library's induction theorems
take an operator and cannot be used, but `WFMin` takes a set, and from it
follow strong induction over a set of numbers (`StrongInduction`) and the
existence of a function that satisfies a descending recursion (`Recursion`).
With these `varint`, `fixed` and `encode_varint` satisfy their equations, a
varint ends at the first byte below 128 and sums up to its number
(`VarintDecoded`), and so for the fixed-width integers. The second part is
about positions: `Layout` says that the bytes of each field stand in a message
at given offsets. The server's reader, put at an offset, returns the field and
the next offset (`ServerField`, `ServerFields`), also for the counted registers,
the register-value pairs and the data of a memory write; hence every request of
the library is read back (`RequestsReadBack`). The encoders produce such a
layout when nothing is cut off and no put fails (`EncodeHolds`), putting the header in
front shifts it (`ShiftCommands`), and the parser walks over it command by
command (`ParsesAll`): this is `RequestParsed`.

`SessionParsedAsSent` lifts it to the two processes. `ParsedAsSent` compares the
server's commands with what the client has pending now, so it also needs that
the client does not go on while the server works. `WireInv` says so: what has
been encoded stands in the buffer (`Encoded`); the connection the server
accepted carries nothing, or one request whose client waits on that connection,
or one response to such a client or to one that reads no more (`TakeTurns`);
and while the server works nothing is on the connection (`Served`). The
difficult step is the receipt of a response: bytes left behind would answer the
next request while the server is still at work on it. They are not, because the
size in front of a response is its length (`HasSize`, `ClientSize`), so a client
that did not get all of it ends the session. This is where the premise
`[]ResponseFits` is used: a response is a sequence of bytes shorter than 2^32.
The code does not guarantee it for every argument (a memory read is answered
with the size misread from its address). The premise `[]RequestFits` excludes
requests longer than the server's read, 4095 bytes, which the client's 16384
byte buffer allows and the server would take for several requests.
`wire_session` checks both of its sessions. A request from which
`cswp_device_reg_write` cut off pairs is excepted in `ParsedAsSent` itself
(`c_buf.cut`); the invariant still covers such requests, since the session goes
on behind them. The premise `LegalSessions` asks for commands of the library
with numbers below 2^31, the range in which the server's varints are exact, any
64-bit address, any payload, and any order of connects, disconnects, requests,
inits and terms, the double connection of `term_cswp` included.
`CcuSessionsLegal` shows that all debug commands of ccu are of this kind, with
one restriction: register ids below 2^31. `ccu_in.cpp:271-276` accepts any
64-bit id, and the server misreads the larger ones (`dummy_server_main.cpp:370`).

`SequenceFacts` holds what these proofs share: tails, concatenations and
removals of sequences without repetition, and ascending ones.

Only model-checked: liveness (`CallReturns`, `DisconnectReturns`,
`ReceiveReturns`, `Finishes`, and the three of the trace client), which needs
fairness; and `AnswersOwnCommand`, which holds of the sessions of ccu and not of
every legal one: the server answers an open or close for all three devices, so
the open of device 1 alone gets the answer of device 0.
Every other invariant and refinement the passing runs check is stated by a
theorem.

## 5. Plan

Done: the core (`UsbDevice` and its refinement, `CswpTransport`, `CswpClient`,
`StreamingTrace`); the codec, the dummy server and the TCP transport
(`CswpBuffer`, `DummyServer`, `CswpWire`); the memory commands of ccu
(`CcuMemory` and its refinement); theorems for every invariant but
`AnswersOwnCommand`. Left, in this order:

1. `CcuCapture` on top of `StreamingTrace`: the capture loop of `perf_cstrace`
   (submit all, wait, resubmit, stop, drain), including a data thread that died
   before `WaitForEvent` is called.
2. A `UsbDevice` with its mutex as a variable, for the double unlock of
   `completeTransfer`.
3. Several sinks in `StreamingTrace`.

Not modelled: device discovery, endpoint and descriptor parsing, configuration
files, and printing (I/O without state of its own); `get_sys_info` (a local
file); MEM_POLL and the NVSEC commands, which no program of the repository
issues and the dummy server does not answer; the C wrapper for OpenOCD and the
lock classes of `plat_sync_prim.h` (forwards).
