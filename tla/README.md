# A TLA+ model of udptoserial

udptoserial carries packets between two computers that share only a serial
line. This directory models its components in TLA+, checks them with TLC on
small instances, and proves the safety properties of the half-duplex link and its
framing, of the two daemons, of the polled serial port and of the conversions with
TLAPS for every value of the constants.

`tlc -config X.cfg M` checks a run, `tlapm M.tla` checks the proofs of a module.
PROJECT.json lists the runs, the source lines of every definition (`map`), the
hazards of the code with the properties that cover them, and for every property
a mutated definition that violates it.

## The system

The repository holds three generations of the program and a few libraries.

| Part | Source | Model |
|---|---|---|
| Half-duplex link after ISO 1745: two stations, polling, selection, ACK/NAK | halfduplex/Half_duplex.cpp, main.cpp | HalfDuplex, MessageLink |
| Its messages as bytes: `to_string`, `parse_input` | halfduplex/Half_duplex.cpp | HalfDuplexFraming |
| The C++ daemon: TCP connections to SLIP frames on the port, and back | udptoserial/Tcp_server_handler.cpp, main.cpp | SerialForward |
| Its acceptors | udptoserial/main.cpp | Acceptor |
| The answers of the servers and their way to the port | udptoserial/Tcp_client_handler.cpp, the end of Serial_port.cpp | SharedQueue |
| SLIP | libhorizr/slip.cpp | Slip, SlipStream |
| IP, UDP and TCP headers and checksums | libhorizr/ip.cpp, udptoserial/IPv4.cpp | IpHeaders |
| The configuration file | udptoserial/ini.cpp, Configuration.cpp | IniConfiguration, IniLines |
| The C daemon: UDP sockets, a linked list of packets, a throttled port | udptoserial/main.c, socket.c, queue.c, serial.c | UdpMain |
| Its text format on the line | udptoserial/parser.c, queue.c | PacketText |
| Base64 | udptoserial/base64.c | Base64 |
| Win32 overlapped serial I/O, driven by a tick | udptoserial/Serial_port.cpp | SerialTick |

Not modelled:

- `Server`: an unfinished earlier version of the acceptors, whose connection
  handler is commented out. `Udp_ports`, `udp_packet`, `input_queue`: used only in
  code that is compiled out; `to_bytes` returns nothing and `from_bytes` always 0,
  so no packet ever leaves the queue.
- `Tcp_client_handler::send_to_remote` (one synchronous call), and the
  `serial_read_handler` of `Serial_port.cpp`. Both it and the one of main.cpp contain
  the words `MutableBuffer, Read Handler` where arguments belong (main.cpp:146), in the
  call that would start reading a server's answers, and do not compile; SerialForward
  models that of main.cpp up to this call.
- The Win32 variants in `serial.c` and `socket.c`; `udp_socket_try_close`, which
  needs `quitting`, and nothing sets it; `pkt_queue_prepend`, which nothing calls.
- `iso1745.h` describes the protocol in its comments; `iso1745.cpp` is a stub.
  `Ip_endpoint_join`, which main.cpp includes, is not in the repository.
- CameraOverUDP (a user interface), hack/ (library samples), libhorizr_test (its
  tests are compiled out), and helpers without state.
- The protocol on top of its bytes (HalfDuplex with HalfDuplexFraming, in which
  noise would split and join frames) and the C daemon on top of its text (UdpMain
  with PacketText) are not composed: each module takes the other's whole messages
  as its interface.

## Modules

**HalfDuplex.** One `Half_duplex` object per station. Each process has one
`io_service` thread, so a handler is one step: `read_handler` (dispatching on
`state_` to the `handle_message_*` functions), `poll`,
`on_master_select_no_response_timeout`, and the application's `enqueue_message`
and `get_next_message`. A message is the number of its `enqueue_message` call.
An exception out of `io_service::run` and `abort()` end the process (`up`). The
no-response timer is `timer_armed` while its wait is pending and `timer_queued`
once it has expired with its handler still to run, which is when `cancel()` comes
too late. The line loses frames (`Lose`) and turns them into what the parser can
return (`Garble`), with two exceptions: noise does not spell out a station's name, so
an ENQ for "alpha" or "bravo" is never forged, and one frame does not become two.
SelectionIsTimed needs the first: a forged ENQ for bravo would be taken for a selection.
With `LateTimeouts` false the timer expires only when nothing is on the way.

**MessageLink** is the promise to the applications: in order, at most once.
MCHalfDuplex maps what is on the line and in `output_queue` to `pending` and shows
that HalfDuplex implements it.

**HalfDuplexFraming.** The same link as bytes. A read returns any number of the
bytes that have arrived; `parse_all` is the loop of `read_handler`, `parse_turn` one
turn of it. Bytes are lost or changed. What a station may write is `Sendable`: names of
printable characters, and texts that fit and do not hold the characters that end them.
`HalfDuplex` uses its result, whole messages.

**SerialForward** (extends Slip). A client's bytes pass `read_packet_done`,
the posted `queue_message`, `async_write` in parts (`write_some`), the line, and
`serial_read_handler` at the other end, which decodes at most one frame per read
and sends it through an ephemeral socket. Addresses and ports are one byte. A client
may reset its connection: the read under way then fails and is the last one
(`read_packet_failed`), or had completed, and its handler asks the closed socket for its
endpoints and throws out of `io_service::run` (`read_packet_throws`), which stops the
sending daemon with all its connections.

**Acceptor.** `main()` opens one acceptor per configured port and then runs the
`io_service`; `tcp_server_accept_handler` starts the handler a client was joined to
and puts up the next one. Handlers are numbered in the order of
`tcp_server_handler_list_`. The operating system holds the listen queues,
completes or fails accepts, and clients reset; an exception ends the program
(`running`). That port numbers differ is an assumption: the second bind of one
throws.

**SharedQueue.** `read_from_server_done` of every connection posts to the one
`send_packet_queue` of `Serial_port.cpp`, whose front message is written in parts.
A message is its number and length, a byte its message and place. MCTcpHandlers puts
Acceptor and SharedQueue on one `io_service`: their handlers interleave, and an
exception in either ends both. This joining is inferred. Nothing in the repository
constructs a `Tcp_client_handler`, and the `serial_port_send(src, dest, string)` that it
calls (Tcp_client_handler.cpp:6, 69) has no definition; `serial_port_send_tcp`, which
has the same parameters and is static and unused, stands for it.

**UdpMain.** `main.c` opens the serial port, looks at one socket per step and then at
the queue. Opening succeeds with any rate in `Bauds` or fails, with or without a
descriptor left open (the port name is built without its terminator, so `open` may
find anything). The state machine of socket.c retries on a clock; the list of queue.c
keeps its links and what was freed. `sent` is what was handed to `write()`: a write that
fails or is cut short is reported and forgotten (serial.c:431-435). `delayed` is the test of the throttle, evaluated
for an age of 0 or 1, which theorem `OneMicrosecond` justifies.

**PacketText.** A token is a character, except that a port or a length is one token. A
character of base64 is its group of bytes and its place in it, a digit of the CRC the
text it was computed from and its place; so different texts have different CRCs, which
is an assumption. `sendbuf` keeps what longer messages left in it. `unpack_message`
decodes the data and stores, as the code does, the length of the text and not that of
the data. The receive loop is written after the documentation of `unpack_message`,
since main.c only announces it.

**SerialTick.** `serial_port_init` and `serial_port_open`, which may throw, then
`serial_port_tick` in two steps, starting operations and waiting
for them; the operating system completes them in between. Any operation may take or
bring fewer bytes than it was asked for, and none. `finished` holds the bytes of all
writes that have ended, `missing` the places of those that a short write left out.

**Slip, Base64, IpHeaders, IniConfiguration.** Conversions as operators, with a
small state machine that builds their inputs. MCConversions checks all four.
ByteStrings holds what they and the framing share: concatenating the parts of a
message, adding up, and erasing from the front.

## Runs

| Run | Checks | Bounds |
|---|---|---|
| half_duplex_lossy | nobody throws or aborts until the first loss; whatever is lost, no collision, no duplicates, master has its slave, implements MessageLink, only the waits without a timer last; while nothing is lost, alpha's messages arrive unless both stations wait for ever after bravo's select request | 3 and 2 messages, 4 losses |
| half_duplex_noise | types, order, the selection has a timer, nothing skipped before the first fault | 2 and 1 messages, 2 losses or garbles, late time-outs |
| framing | parsing of cut reads, bounded buffer, the step is kept | 3 messages of 4 kinds, 2 faults, reads of 1 to 3 bytes |
| serial_forward | order, failures leave no gap, the queue is served, everything is written until something fails | 1 connection, 5 bytes with escapes and white space, 2 failures (of writes, connects and sends, or a reset) |
| tcp_handlers | one accept per port, a handler for each connection, clients are served; messages of all connections whole, in order and to the last byte | 2 ports, 2 clients, 2 connections, 2 messages of 1 or 2 bytes, 1 failure of each kind |
| udp_main | the list is the queue, order, open descriptors, sockets settle, packets are sent | 2 sockets, 4 packets, 2 datagrams waiting at a socket, 2 errors, no port or one of a known or unknown rate |
| packet_text | stale text is harmless, damage is local | 3 packets of 1 and 7 bytes, 1 fault, reads of up to 30 tokens |
| serial_tick | bytes in order in both directions, everything goes out while ticks find no input | 5 bytes in, 5 out in two calls, chunks of 2, short and empty completions |
| conversions | round trips of SLIP, base64 and headers, base64 bit by bit, when the UDP checksum is right; the configuration file | 4 bytes in 3 SLIP packets, 5 bytes of base64, 2 headers, 5 lines |
| half_duplex_select_ignored, forward_interleaved, forward_lagging | violated: see below | |

The bounds let the interesting cases happen. Two messages in one direction are
needed for reordering and for a transfer that is interrupted and resumed; the
cheaper runs have a third. `MAX_ENQ_TRIES` and `MAX_INFO_TRIES` are 2, so that
both the retry and the giving up are reached. Four losses can hit one exchange
several times, or several exchanges. Chunks and reads are smaller than the
messages, so that a message can be cut at every place.
`LineCap` bounds the frames in flight when a timer handler writes. Three SLIP
packets have two boundaries; five bytes of base64 reach every remainder by 3. The text
of 7 bytes is longer than that of 1 by two groups, so what it leaves in `sendbuf` behind
the shorter one is a base64 character, the CRC, `]` and the line end: all of the tail
that `unpack_message` could mistake for something.

Two ports and two clients let connections compete for one acceptor and two
acceptors for one thread; two messages are needed for one to wait behind a partial
write. Of the rates, -1 and 50 stand for the two cases `OneMicrosecond` tells apart.

Deadlock is not checked where the model's inputs end or a process may end; each
of those cfg files is of that kind. UdpMain, whose loop never stops, checks it.

Fairness: the `io_service` threads and the loops keep running, so handlers whose
event has happened run (weak fairness of reads, polls, timer completions, queue
steps; in SerialTick strong fairness of the calls of the loop, which take turns
with the tick). An accepted write completes. No fairness is assumed of faults,
failures, datagrams, or the application's sending, and a serial read need never
complete. EverythingGoesOut states what it needs of the input as its condition: again
and again a tick waits while a read is outstanding. Without it the property fails, for
the reason given below (Serial_port.cpp:332). In Acceptor the operating system completes an accept for which it has a
connection; no client has to connect.

## Where code and documentation disagree

Shown by runs:

- half_duplex_select_ignored: alpha never answers the select request it waits for
  (Half_duplex.cpp:339 against its comment at 740). AlphaMessagesArrive of
  half_duplex_lossy shows that on a clean line nothing else keeps a message back.
- forward_interleaved: two connections mix their frames when writes are partial
  (Tcp_server_handler.cpp:123 against README.txt:4).
- forward_lagging: the last packets stay in the receive buffer (main.cpp:85
  against README.txt:9).

Met while modelling, in the models as the code has them:

- No timer covers an information message or a poll; `no_activity_timer_` is never
  waited on (Half_duplex.cpp:214, 444; iso1745.h:48, 83). OnlyUntimedWaitsLast
  names the waits that can last for ever, and says that no other does. Replies that
  do not fit throw (416, 505; iso1745.h:34). A rejected master goes to POLL_TRANSMIT rather
  than to neutral (396; comment at 387).
- The check byte is not compared (Half_duplex.cpp:651; comment at 661), and a DLE
  aborts (587; comment at 585).
- White space in TCP data is lost (Tcp_server_handler.cpp:47; comment at 26).
- The C loop never sleeps once a socket is ready (socket.c:174; main.c:109), and
  the throttle is over after a microsecond (queue.c:184; comment at 186). At a rate
  `speed_to_bps` does not know (-1) or at 0 it is never over, and nothing is sent
  (theorem `UnknownRateSendsNothing`). The product also overflows 64 bits once the
  first packet is 40 seconds old at 230400 baud, or 960 at 9600; the model's integers
  do not wrap, so a packet that old is outside it.
- A failed accept is the last one of its port (main.cpp:46-49; comment at 59), and a
  client that resets before its accept handler runs ends the daemon, because the log
  line asks for its endpoint (main.cpp:55).
- A failed write leaves its message at the front of the shared queue, and no later one
  is started (Serial_port.cpp:568). `+= "\0"` appends nothing (556).
- `serial_port_send_tcp` puts the source's port in the place of the destination's
  (Serial_port.cpp:529), and where its comment says "slip" (537) there is no call of
  `slip_encode`: the answers would go out unframed.
- A client's reset ends its connection without a word to the other side
  (Tcp_server_handler.cpp:40), or the daemon (48, 65-68).
- The events of the Win32 port are made signaled (Serial_port.cpp:101, 110; the
  comments there say unsignaled); `ReadFile` and `WriteFile` reset them.
- `unpack_message` may return one more than it was given (parser.c:93; 52). It stores
  the length of the base64 text with the decoded data, and drops the length that
  `base64_decode` returns (178-179).
- A tick with only a write to wait on never sees it complete (Serial_port.cpp:332;
  comment at 328). EverythingGoesOut holds when a later tick waits on both; while every
  read returns at once there is no such tick, and output stops.
- A write of the Win32 port that takes part of its bytes counts as complete, and the rest
  is lost (Serial_port.cpp:236, 281); nothing is done about an instant one that takes
  none (233-245). WrittenInOrder says that nothing else is lost.
- The checksum folds carries by 8 bits, the IPv4 header checksum is discarded, and
  the total length is not header plus data (ip.cpp:108, 86, 165; comments at 89,
  82, 162). ChecksumNeedsNoCarry compares the UDP checksum with the test of RFC 768 on
  the bytes of the packet: it is accepted exactly when the sum of its words needs no
  carry. The TCP checksum leaves out the TCP header (IPv4.cpp:95-110) and is not
  compared; the lengths in both headers are in the byte order of the host.
- `baudrate` is stored and reported as an error (Configuration.cpp:28-33; 53); the
  shipped file sets `source_ip`, which the handler does not know.

## Proofs

| Module | Theorems | Assumptions |
|---|---|---|
| HalfDuplexProofs | `TypeCorrect`: []TypeOK; `SelectionTimed`: []SelectionIsTimed; `ControlInvariant`; `CollisionFree`: []NoCollision; `SlaveIsThere`: []MasterHasSlave; `RolesKept`; `OrderInvariant`; `DeliveryInOrder`: []NeverReordered; `DeliveryAtMostOnce`: []NoDuplicates | bounds are natural numbers, switches Booleans (`ConstantsAssumption`); from `ControlInvariant` to `SlaveIsThere`: no garbling, no late time-outs; `DeliveryAtMostOnce`: no garbling |
| HalfDuplexLink | `PathKept`; `BothSurvive`: []NobodyDies; `LinkImplemented`: ImplementsLink; `NoneSkipped`: []NothingSkipped | `BothSurvive`: no late time-outs; `LinkImplemented`: no garbling |
| HalfDuplexFramingProofs | `FramingIsRight`: []ReadsMayCutAnywhere; `InputBounded`: []BufferBounded; `StepNotLost`: StepIsKept | every message written is `Sendable`, and a name is no longer than a message may be (`FramingAssumption`) |
| SerialForwardProofs | `StreamCorrect`: []StreamRoundTrip; `QueuesServed`: []QueueIsServed; `WordsInOrder`: []ForwardedInOrder; `NoGap`: []FailuresLeaveNoGap | bytes and connections are natural numbers (`StreamAssumption`, `ForwardAssumption`); the last two: one client (`OneClient`) |
| TcpDaemonProofs | `AcceptsCorrect`: []OneAcceptPerPort; `HandlersCorrect`: []OwnHandler; `WholeMessages`: []MessagesStayWhole, each for its component alone and for the two on one `io_service`; `ReadingCorrect`: []ReceivedInOrder; `WritingCorrect`: []WrittenInOrder | port numbers differ (`AcceptorAssumption`); `WholeMessages`: messages are not empty; the last two: `TickAssumptions` of SerialTick |
| UdpDaemonProofs | `TypeCorrect`; `ListCorrect`, `OrderCorrect`, `HandlesCorrect`: the three invariants of the run; `OneMicrosecond`, `UnknownRateSendsNothing`; `TextComesBack`: []TextRoundTrip; `BitsEncoded`: []EncodesBits | `Assumptions` of UdpMain; `OneMicrosecond`: payloads of at most 1500 bytes; base64: payloads are bytes |
| ConversionsProofs | `HeadersRecovered`: []HeadersRoundTrip; `FileInvariance`; `LastLinesWin`: []LastLineWins; `PortsAreFirst`: []FirstPortsKept | addresses and ports are 16-bit words, payloads bytes; what the lines of a file are |
| SequenceFacts | lemmas: induction, recursion and sequences | |

**Order.** NeverReordered speaks only of what was delivered, which the next read
changes, so it is not inductive. `OrderInv` says where the other messages are: for
each sender, what is delivered, in `input_queue`, on the line, and last sent are
sorted and in this order (`Chain`), and what waits in `output_queue` is younger than
`last_message`. A NAK makes the master send `last_message` again, so equal neighbours
are allowed when the line garbles; without garbling nobody sends NAK, which is the
second half of OrderInv (`CleanAt`), and the order is strict. The lemmas
`ChainEnqueue` to `ChainPush` say what one operation on one sequence does to a chain;
one lemma per group of actions applies them.

**Collisions.** `Control` says which frames each station can have on the line, that
alpha's frames but the last need no answer, that frames travel one way at a time, and
in which states. A station answers only what it has just taken off the line, so an
answer meets an empty line; poll and the time-out transmit only when nothing of bravo
travels. SelectionTimed needs none of this: bravo never sends what alpha would take
for a selection (`RepliesNotForBravo`), so only poll and the handlers that see to the
timer change the states it speaks of.

**The link.** With late time-outs `Control` is gone: alpha may write the frames of a
new selection behind those of an old one. What is left is that each station keeps to
its side of the protocol (`Roles`), and that the frames on their way to bravo are
read one by one in the phases they were written for (`Path`, with `Run` over the
phases of bravo). Hence until the first fault bravo always takes what comes, and an
information message that leaves the line enters `input_queue`. `LinkImplemented` shows
for every action that what it does to `enqueued`, `output_queue`, the line,
`input_queue` and `delivered` is Send, Arrive or Drop of MessageLink, or nothing; the
mapping takes the bodies of the information messages on the line (`Bodies`), a
recursive function whose value the lemmas give for each way a line changes.
`NoneSkipped` follows with the same lemmas: as long as nothing is dropped, `arrived`
followed by `pending` is 1 to `sent`. That alpha survives as well needs a timer that
waits: with it, an answer that alpha awaits can only be ACK or EOT (`Answered`).

**Framing.** A read stops anywhere, so the invariant speaks of what `parse_input` has not
used. `StepInv`: until the first fault, that and the line together are the bytes of the
messages not returned yet, and `parse_input` finds nothing in what it holds. The lemmas
say what it makes of the bytes `to_string` wrote: of a whole message that message, of a
proper part of one NONE, and neither depends on what follows; a turn of the loop takes one
message, and there are no more turns than bytes. `StepNotLost` uses the same lemmas from any
state that is in step. `InputBounded` holds on any bytes: what stays unprocessed has no
character that starts a message, or is the beginning of one; one that is too long is given
up, except that a message whose ETX came in time may wait for its check byte. `BoundInv`
says that.

**The linked list.** `pkt_queue_append` follows `next` to the last node. `pkt_queue_last`
says that without recursion: the node without successor that is in every set holding
the first node and closed under `next`. That it is the youngest packet is an induction
over a set, which SequenceFacts provides (`SetInduction`, from the well-foundedness of
<); ListIsTheQueue, with the facts that nothing younger than `allocated` is linked, is
then inductive.

**Acceptors.** The invariant places every handler: standing by at a port, joined with
its accept handler due, or started. A port's accept is under way from `open_acceptor`
on, and each step moves it on.

**Shared queue.** Message numbers run through line, queue and posted calls without a gap
(`Numbered`), a write belongs to the front message (`WriteOfFront`), and the line ends
where that write has got to (`LineEnd`). Neither component changes what the other's
invariant speaks of but `running`, so both hold in the composition.

**Serial tick.** A tick waits on an operation exactly while it is outstanding, so a
buffer is filled only when the operating system has done with it. Every byte given to
`serial_port_write` is then in `finished`, in the write buffer or in the queue, in this
order (`WrittenInOrder`), however short the writes are, and only bytes of ended writes are
`missing`.

**SLIP.** `Decodes` follows `slip_decode` over the bytes `slip_encode` writes, by
induction over the packet: no pair is left open, what has been decoded is the packet so
far, and no END but an initiator has come. So the first unescaped END is the
terminator (`FrameDecoded`), whatever follows it, and a message found in a part of a
stream is the one found in all of it (`DecodedEarly`). `slip_decode` leaves the
terminator in the source, where the next call takes it for the initiator of the next
frame, or for that of an empty message when that frame brings its own. `Carries` allows
for that: the bytes are the frames of some messages, perhaps with one END in front.
It is what each call preserves (`CarriesStep`), and with it `StreamInv`, the packets
encoded are those decoded and those the bytes still carry, is inductive.

**Serial forwarding.** `Delivered` splits the words taken from a client in three: those
that failed connects have dropped, those sent to the server, and those on the way. The
last are what the receive buffer, the line, the write in progress, the queue and the
posted calls, taken together, carry (`OnTheWay`); after a failed write the last frame may
be cut. `Words` says that what the client has sent, white space aside, is what has been
taken and what has not been read. `OneClient` is needed: the run forward_interleaved shows two
connections that mix their frames. QueuesServed holds for any number of them.

**Base64.** The text on its way, without the characters `dtable` does not know, is what
`base64_encode` wrote (`TextInv`); inserting such a character does not change that, and
`base64_decode` looks at nothing else. Encoding and decoding are then compared group by
group: three bytes make four characters and come back from them, the last group has as
many pad characters as bytes are missing, and no earlier one has any, so decoding stops
where the text ends. `BitsEncoded` compares each bit of a character with the bit of the
payload it stands for.

**Headers.** `Carries` says what each of the fourteen or twenty words of the headers
holds; the bytes of the packet are those of its words in the order of the machine, so the
offsets the receiver has hard-coded find the fields (`HeaderInv`).

**The configuration file.** `FileInv`: after each line, refused or not, the section is
that of the last section line, each setting is that of the last line that gives it, and the
ports are those of the first lines that fit. A new line is the last one of what it sets and
of nothing else, and it is the youngest of the port lines, so its place among them is their
number.

Only model-checked: the liveness properties (fairness and ENABLED are beyond the
prover), ChecksumNeedsNoCarry, which compares two sums of a recursive function over
different sequences, and PacketText (StaleTextIsHarmless, DamageIsLocal), whose receive loop is a
RECURSIVE operator, which the prover cannot read.
