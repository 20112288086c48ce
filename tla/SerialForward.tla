---------------------------- MODULE SerialForward ----------------------------
(***************************************************************************)
(* The TCP path of src/udptoserial: one daemon accepts TCP connections     *)
(* (Tcp_server_handler) and writes what they receive, SLIP-framed, to the  *)
(* serial port; the daemon at the other end (serial_read_handler in        *)
(* main.cpp) unframes it and sends it to the server it is meant for.       *)
(*                                                                         *)
(* Each daemon runs its handlers on one io_service thread, so a handler is *)
(* one step.  The address and port fields of the IP and TCP headers are    *)
(* one byte that identifies the connection; the other header fields are    *)
(* not read by the receiver.                                               *)
(***************************************************************************)
EXTENDS Slip

CONSTANTS
    Conns,          \* TCP connections: their header byte
    Stream,         \* Stream[c]: the bytes the client of c sends
    PartialWrites,  \* may one write to the port take part of the bytes?
    MaxReadSize,    \* bound: bytes of one serial read
    MaxFailures     \* bound: resets by clients, failed writes, connects and sends

ASSUME ForwardAssumption ==
    /\ Conns \subseteq Nat /\ Stream \in [Conns -> Seq(Nat)]
    /\ MaxReadSize \in Nat /\ MaxFailures \in Nat

SPACE == 32

VARIABLES
    stream,               \* stream[c]: bytes not yet received from the client
    in_packet,            \* in_packet_: received, not yet extracted
    reading,              \* reading[c]: an async_read_until is outstanding
    connected,            \* connected[c]: the client has not reset c
    sending,              \* the sender's io_service::run has not ended
    posted,               \* messages in posted queue_message calls
    send_packet_queue,
    unwritten,            \* what async_write has left of the front message
    writing,              \* an async_write is in progress
    line,                 \* bytes on the serial line
    unprocessed,          \* serial_read_buffer_unprocessed_
    running,              \* no exception has left the receiver's run()
    ephemeral,            \* keys of tcp_ephemeral_socket_map_
    forwarded,            \* forwarded[c]: bytes sent to the server of c
    taken,                \* taken[c]: payloads handed to send(), in order
    failures

senderVars == <<stream, in_packet, posted, taken>>

clientVars == <<reading, connected, sending>>

queueVars == <<send_packet_queue, unwritten, writing>>

receiverVars == <<unprocessed, running, ephemeral, forwarded>>

vars == <<senderVars, clientVars, queueVars, line, receiverVars, failures>>

Init ==
    /\ stream = Stream
    /\ in_packet = [c \in Conns |-> <<>>]
    /\ reading = [c \in Conns |-> TRUE]
    /\ connected = [c \in Conns |-> TRUE]
    /\ sending = TRUE
    /\ posted = [c \in Conns |-> <<>>]
    /\ send_packet_queue = [c \in Conns |-> <<>>]
    /\ unwritten = [c \in Conns |-> <<>>]
    /\ writing = [c \in Conns |-> FALSE]
    /\ line = <<>>
    /\ unprocessed = <<>>
    /\ running = TRUE
    /\ ephemeral = {}
    /\ forwarded = [c \in Conns |-> <<>>]
    /\ taken = [c \in Conns |-> <<>>]
    /\ failures = 0

-----------------------------------------------------------------------------
(* Tcp_server_handler.                                                     *)

\* stream >> packet_string: skip white space, take up to the next one.
word_end(buf) ==
    LET first == Min({i \in DOMAIN buf : buf[i] # SPACE} \cup {Len(buf) + 1})
        after == {i \in DOMAIN buf : i > first /\ buf[i] = SPACE}
    IN [first |-> first, after |-> Min(after \cup {Len(buf) + 1})]

extract(buf) == SubSeq(buf, word_end(buf).first, word_end(buf).after - 1)

\* async_read_until with an empty delimiter completes at once if in_packet_
\* holds anything, and otherwise with the next bytes received.
Completions(c) ==
    IF in_packet[c] # <<>> THEN {0} ELSE 1 .. Len(stream[c])

read_packet_done(c) ==
    \E n \in Completions(c) :
        LET buf == in_packet[c] \o SubSeq(stream[c], 1, n)
            packet == <<c>> \o extract(buf)
        IN /\ sending /\ reading[c] /\ connected[c]
           /\ stream' = [stream EXCEPT ![c] = Drop(@, n)]
           /\ in_packet' = [in_packet EXCEPT
                                ![c] = Drop(buf, word_end(buf).after - 1)]
           /\ posted' = [posted EXCEPT
                            ![c] = Append(@, slip_encode(packet, TRUE))]
           /\ taken' = [taken EXCEPT ![c] = Append(@, extract(buf))]
           /\ UNCHANGED <<clientVars, queueVars, line, receiverVars, failures>>

\* With an error read_packet_done returns, and nothing is read from c again: at
\* the end of the client's stream, and after a reset.
read_packet_failed(c) ==
    /\ sending /\ reading[c]
    /\ in_packet[c] = <<>>
    /\ stream[c] = <<>> \/ ~connected[c]
    /\ reading' = [reading EXCEPT ![c] = FALSE]
    /\ UNCHANGED <<senderVars, connected, sending, queueVars, line, receiverVars,
                   failures>>

\* A read that had completed before the reset: remote_endpoint() throws, nobody
\* catches the exception, and the daemon ends with all it holds in memory.
read_packet_throws(c) ==
    /\ sending /\ reading[c] /\ ~connected[c]
    /\ Completions(c) # {}
    /\ sending' = FALSE
    /\ UNCHANGED <<senderVars, reading, connected, queueVars, line, receiverVars,
                   failures>>

client_resets(c) ==
    /\ failures < MaxFailures
    /\ connected[c]
    /\ connected' = [connected EXCEPT ![c] = FALSE]
    /\ failures' = failures + 1
    /\ UNCHANGED <<senderVars, reading, sending, queueVars, line, receiverVars>>

\* async_write of the front of the queue q.
start_packet_send(c, q) ==
    /\ unwritten' = [unwritten EXCEPT ![c] = Head(q)]
    /\ writing' = [writing EXCEPT ![c] = TRUE]

\* Mutant: every message starts a write, without looking at the queue.
queue_message_and_start(c) ==
    /\ sending /\ posted[c] # <<>>
    /\ posted' = [posted EXCEPT ![c] = Tail(@)]
    /\ send_packet_queue' = [send_packet_queue EXCEPT
                                ![c] = Append(@, Head(posted[c]))]
    /\ start_packet_send(c, send_packet_queue'[c])
    /\ UNCHANGED <<stream, in_packet, taken, clientVars, line, receiverVars,
                   failures>>

queue_message(c) ==
    /\ sending /\ posted[c] # <<>>
    /\ posted' = [posted EXCEPT ![c] = Tail(@)]
    /\ send_packet_queue' = [send_packet_queue EXCEPT
                                ![c] = Append(@, Head(posted[c]))]
    /\ \/ /\ send_packet_queue[c] = <<>>
          /\ start_packet_send(c, send_packet_queue'[c])
       \/ /\ send_packet_queue[c] # <<>>
          /\ UNCHANGED <<unwritten, writing>>
    /\ UNCHANGED <<stream, in_packet, taken, clientVars, line, receiverVars,
                   failures>>

\* The serial port takes bytes of an async_write.
write_some(c) ==
    /\ sending /\ writing[c]
    /\ \E n \in 1 .. Len(unwritten[c]) :
          /\ PartialWrites \/ n = Len(unwritten[c])
          /\ line' = line \o SubSeq(unwritten[c], 1, n)
          /\ unwritten' = [unwritten EXCEPT ![c] = Drop(@, n)]
    /\ UNCHANGED <<senderVars, clientVars, send_packet_queue, writing,
                   receiverVars, failures>>

\* Mutant: the next message is left for queue_message to start.
packet_send_done_and_rest(c) ==
    /\ sending /\ writing[c] /\ unwritten[c] = <<>>
    /\ send_packet_queue' = [send_packet_queue EXCEPT ![c] = Tail(@)]
    /\ writing' = [writing EXCEPT ![c] = FALSE]
    /\ UNCHANGED <<senderVars, clientVars, unwritten, line, receiverVars, failures>>

packet_send_done(c) ==
    /\ sending /\ writing[c] /\ unwritten[c] = <<>>
    /\ send_packet_queue' = [send_packet_queue EXCEPT ![c] = Tail(@)]
    /\ \/ /\ send_packet_queue'[c] = <<>>
          /\ writing' = [writing EXCEPT ![c] = FALSE]
          /\ UNCHANGED unwritten
       \/ /\ send_packet_queue'[c] # <<>>
          /\ start_packet_send(c, send_packet_queue'[c])
    /\ UNCHANGED <<senderVars, clientVars, line, receiverVars, failures>>

\* With an error packet_send_done does nothing: the message stays in front.
packet_send_failed(c) ==
    /\ failures < MaxFailures
    /\ sending /\ writing[c] /\ unwritten[c] # <<>>
    /\ writing' = [writing EXCEPT ![c] = FALSE]
    /\ unwritten' = [unwritten EXCEPT ![c] = <<>>]
    /\ failures' = failures + 1
    /\ UNCHANGED <<senderVars, clientVars, send_packet_queue, line,
                   receiverVars>>

-----------------------------------------------------------------------------
(* serial_read_handler.                                                    *)

\* ip_bytevector_validate, ip_bytevector_is_tcp and the key of the map: the
\* header is there and names a connection.
ForConnection(msg, c) == msg # <<>> /\ msg[1] = c

\* p_socket->send of the data on the socket of c.  When it fails it throws,
\* and nobody catches the exception.
forward(msg, c) ==
    \/ /\ forwarded' = [forwarded EXCEPT ![c] = @ \o Tail(msg)]
       /\ UNCHANGED <<running, failures>>
    \/ /\ failures < MaxFailures
       /\ running' = FALSE
       /\ failures' = failures + 1
       /\ UNCHANGED forwarded

\* The first message of a connection opens its socket; when that fails the
\* message is dropped and the next one tries again.
handle_message(msg) ==
    \/ /\ \A c \in Conns : ~ForConnection(msg, c)
       /\ UNCHANGED <<running, ephemeral, forwarded, failures>>
    \/ \E c \in Conns \ ephemeral :
          /\ ForConnection(msg, c)
          /\ \/ /\ ephemeral' = ephemeral \cup {c}
                /\ forward(msg, c)
             \/ /\ failures < MaxFailures
                /\ failures' = failures + 1
                /\ UNCHANGED <<running, ephemeral, forwarded>>
    \/ \E c \in ephemeral :
          /\ ForConnection(msg, c)
          /\ forward(msg, c)
          /\ UNCHANGED ephemeral

\* Mutant: the whole buffer is erased with the message.
serial_read_handler_erase_all(n) ==
    LET buf == unprocessed \o SubSeq(line, 1, n)
        d == slip_decode(buf)
    IN /\ running
       /\ line' = Drop(line, n)
       /\ unprocessed' = IF d.used > 0 THEN <<>> ELSE buf
       /\ IF d.used > 0 THEN handle_message(d.msg)
          ELSE UNCHANGED <<running, ephemeral, forwarded, failures>>
       /\ UNCHANGED <<senderVars, clientVars, queueVars>>

\* One read, and at most one message taken from what has been read so far.
serial_read_handler(n) ==
    LET buf == unprocessed \o SubSeq(line, 1, n)
        d == slip_decode(buf)
    IN /\ running
       /\ line' = Drop(line, n)
       /\ unprocessed' = Drop(buf, d.used)
       /\ IF d.used > 0 THEN handle_message(d.msg)
          ELSE UNCHANGED <<running, ephemeral, forwarded, failures>>
       /\ UNCHANGED <<senderVars, clientVars, queueVars>>

-----------------------------------------------------------------------------
Next ==
    \/ \E c \in Conns :
          \/ read_packet_done(c)
          \/ read_packet_failed(c)
          \/ read_packet_throws(c)
          \/ client_resets(c)
          \/ queue_message(c)
          \/ write_some(c)
          \/ packet_send_done(c)
          \/ packet_send_failed(c)
    \/ \E n \in 1 .. Min({MaxReadSize, Len(line)}) : serial_read_handler(n)

Spec == Init /\ [][Next]_vars

\* io_service::run keeps running completed handlers on both sides, and the
\* serial port keeps taking and bringing bytes.
Fairness ==
    /\ \A c \in Conns : /\ WF_vars(read_packet_done(c))
                        /\ WF_vars(queue_message(c))
                        /\ WF_vars(write_some(c))
                        /\ WF_vars(packet_send_done(c))
    /\ WF_vars(\E n \in 1 .. Min({MaxReadSize, Len(line)}) :
                  serial_read_handler(n))

FairSpec == Spec /\ Fairness

-----------------------------------------------------------------------------
(* Properties.                                                             *)

\* q without its white space.
NonSpace(q) ==
    Flatten([i \in DOMAIN q |-> IF q[i] = SPACE THEN <<>> ELSE <<q[i]>>])

\* Until something fails, the words the client sent reach the server in order,
\* none missing in between and none twice, however the reads and writes cut
\* the stream: what is forwarded is what was taken from the client up to some
\* point.
ForwardedInOrder ==
    failures = 0 =>
        \A c \in Conns :
            /\ \E n \in 0 .. Len(taken[c]) :
                  forwarded[c] = Flatten(SubSeq(taken[c], 1, n))
            /\ Flatten(taken[c]) \o NonSpace(in_packet[c] \o stream[c])
                   = NonSpace(Stream[c])

\* When clients reset, or writes, connects and sends fail, the server still gets
\* a contiguous part of the words, each of them whole: a failed connect drops
\* words only at the start, the other failures only at the end.
FailuresLeaveNoGap ==
    \A c \in Conns : \E a, b \in 0 .. Len(taken[c]) :
        forwarded[c] = Flatten(SubSeq(taken[c], a + 1, b))

\* Until something fails, a handler's queue is never left without a write: the
\* front message is being written whenever there is one, so that queue_message
\* may take a non-empty queue for a write in progress.
QueueIsServed ==
    failures = 0 =>
        \A c \in Conns : writing[c] <=> send_packet_queue[c] # <<>>

\* Everything the client sent is eventually written to the serial port, and
\* the queues are empty again, unless something fails: a write, or a client
\* that resets, which ends its own connection or, when a read had already
\* completed, the daemon.
EverythingIsWritten ==
    \A c \in Conns :
        \/ <>(failures > 0)
        \/ <>[](/\ stream[c] = <<>> /\ in_packet[c] = <<>>
               /\ posted[c] = <<>> /\ send_packet_queue[c] = <<>>)

\* "the packet will be forwarded on to its destination" (README.txt): every
\* packet that reaches the receiving daemon does.
PacketsAreForwarded ==
    \A c \in Conns : <>(forwarded[c] = NonSpace(Stream[c]))

\* "When a packet is received, it is sent down the serial port using the SLIP
\* protocol" (README.txt): what comes out of the frames on the line is the
\* packets, also when two connections are served at once.
FramesStayWhole ==
    \A c \in Conns : \E n \in 0 .. Len(taken[c]) :
        forwarded[c] = Flatten(SubSeq(taken[c], 1, n))

=============================================================================
