---------------------------- MODULE SharedQueue ----------------------------
(***************************************************************************)
(* The answers of the servers on their way to the serial port: the reads   *)
(* of Tcp_client_handler and the send chain at the end of Serial_port.cpp, *)
(* in which all connections share one queue, one strand and one write at a *)
(* time.  (In Tcp_server_handler each connection has its own.)             *)
(*                                                                         *)
(* All handlers run on one io_service thread, so a handler is one step.  A *)
(* message is its number, in the order of the calls of                     *)
(* serial_port_send_tcp by any connection, with its length in bytes; the   *)
(* k-th byte of a message is the message and k.                            *)
(***************************************************************************)
EXTENDS Naturals, Sequences

CONSTANTS
    Conns,        \* the Tcp_client_handlers
    Sizes,        \* lengths of messages, headers included
    MaxMessages,  \* bound: messages the servers send
    MaxFailures   \* bound: failed writes and resets

VARIABLES
    running,            \* no exception has left io_service::run
    reading,            \* connections with an async_read_until under way
    made,               \* calls of serial_port_send_tcp so far
    posted,             \* messages in posted serial_port_queue_message calls
    send_packet_queue,
    writing,            \* an async_write of the front message is under way
    written,            \* bytes of the front message it has written
    line,               \* bytes on the serial line
    failures

readVars == <<reading, made>>

sendVars == <<send_packet_queue, writing, written, line>>

vars == <<running, readVars, posted, sendVars, failures>>

Init ==
    /\ running = TRUE
    /\ reading = Conns
    /\ made = 0
    /\ posted = <<>>
    /\ send_packet_queue = <<>>
    /\ writing = FALSE
    /\ written = 0
    /\ line = <<>>
    /\ failures = 0

Message(n, size) == [id |-> n, size |-> size]

Byte(m, k) == [of |-> m, at |-> k]

-----------------------------------------------------------------------------
(* Tcp_client_handler.                                                     *)

\* The service's queue and the strand keep the order of the posts.
serial_port_send_tcp(size) ==
    /\ made' = made + 1
    /\ posted' = Append(posted, Message(made + 1, size))

\* A read completes: with an error, with data of a connection that has been
\* reset meanwhile, whose endpoint the log line asks for in vain, or with data
\* that goes to the serial port before the next read.  The handler calls
\* serial_port_send(source, destination, string), which it declares and which
\* has no definition; Serial_port's serial_port_send_tcp stands for it here, the
\* one function that does what the call asks for.
read_from_server_done(c) ==
    /\ running /\ c \in reading
    /\ \/ /\ reading' = reading \ {c}
          /\ UNCHANGED <<running, made, posted, failures>>
       \/ /\ failures < MaxFailures
          /\ failures' = failures + 1
          /\ running' = FALSE
          /\ UNCHANGED <<readVars, posted>>
       \/ /\ made < MaxMessages
          /\ \E size \in Sizes : serial_port_send_tcp(size)
          /\ UNCHANGED <<running, reading, failures>>
    /\ UNCHANGED sendVars

-----------------------------------------------------------------------------
(* The send chain of Serial_port.cpp.                                      *)

\* Appends nothing to the front message ("\0" is an empty string) and starts
\* an async_write of it.
serial_port_start_packet_send ==
    /\ writing' = TRUE
    /\ written' = 0

\* Mutant: every message starts a write, without looking at the queue.
queue_message_and_start ==
    /\ running /\ posted # <<>>
    /\ posted' = Tail(posted)
    /\ send_packet_queue' = Append(send_packet_queue, Head(posted))
    /\ serial_port_start_packet_send
    /\ UNCHANGED <<running, readVars, line, failures>>

serial_port_queue_message ==
    /\ running /\ posted # <<>>
    /\ posted' = Tail(posted)
    /\ send_packet_queue' = Append(send_packet_queue, Head(posted))
    /\ \/ /\ send_packet_queue = <<>>
          /\ serial_port_start_packet_send
       \/ /\ send_packet_queue # <<>>
          /\ UNCHANGED <<writing, written>>
    /\ UNCHANGED <<running, readVars, line, failures>>

\* The port takes the next byte of an async_write.
write_some ==
    /\ running /\ writing
    /\ written < Head(send_packet_queue).size
    /\ line' = Append(line, Byte(Head(send_packet_queue), written + 1))
    /\ written' = written + 1
    /\ UNCHANGED <<running, readVars, posted, send_packet_queue, writing, failures>>

\* Mutant: the next message is left for serial_port_queue_message to start.
packet_send_done_and_rest ==
    /\ running /\ writing
    /\ \/ /\ written = Head(send_packet_queue).size
          /\ send_packet_queue' = Tail(send_packet_queue)
          /\ UNCHANGED failures
       \/ /\ written < Head(send_packet_queue).size
          /\ failures < MaxFailures
          /\ failures' = failures + 1
          /\ UNCHANGED send_packet_queue
    /\ writing' = FALSE
    /\ UNCHANGED <<running, readVars, posted, written, line>>

\* With an error it does nothing: the message stays in front, and nothing is
\* being written.
serial_port_packet_send_done ==
    /\ running /\ writing
    /\ \/ /\ written = Head(send_packet_queue).size
          /\ send_packet_queue' = Tail(send_packet_queue)
          /\ \/ /\ send_packet_queue' # <<>>
                /\ serial_port_start_packet_send
             \/ /\ send_packet_queue' = <<>>
                /\ writing' = FALSE
                /\ UNCHANGED written
          /\ UNCHANGED failures
       \/ /\ written < Head(send_packet_queue).size
          /\ failures < MaxFailures
          /\ failures' = failures + 1
          /\ writing' = FALSE
          /\ UNCHANGED <<send_packet_queue, written>>
    /\ UNCHANGED <<running, readVars, posted, line>>

-----------------------------------------------------------------------------
Next ==
    \/ \E c \in Conns : read_from_server_done(c)
    \/ serial_port_queue_message
    \/ write_some
    \/ serial_port_packet_send_done

Spec == Init /\ [][Next]_vars

\* io_service::run runs the handlers that are ready, and the port keeps taking
\* bytes.  Nothing obliges a server to answer.
Fairness ==
    /\ WF_vars(serial_port_queue_message)
    /\ WF_vars(write_some)
    /\ WF_vars(serial_port_packet_send_done)

FairSpec == Spec /\ Fairness

-----------------------------------------------------------------------------
(* Properties.                                                             *)

\* The byte that has to follow b on the line: the next one of its message, or
\* the first one of the next message.
Follows(b, a) ==
    \/ b.of = a.of /\ b.at = a.at + 1 /\ b.at <= b.of.size
    \/ a.at = a.of.size /\ b.at = 1 /\ b.of.id = a.of.id + 1

\* Whatever the connections do at once and however the port takes the bytes,
\* the messages come out on the line whole, one after the other, in the order
\* in which they were sent, none missing and none twice.
MessagesStayWhole ==
    /\ line # <<>> => line[1].of.id = 1 /\ line[1].at = 1
    /\ \A i \in 1 .. Len(line) - 1 : Follows(line[i + 1], line[i])

\* Every message sent goes out to its last byte, unless a write fails or the
\* program ends.
MessagesGoOut ==
    [](\A n \in 1 .. MaxMessages : made >= n =>
          <>(\/ \E i \in 1 .. Len(line) :
                    line[i].of.id = n /\ line[i].at = line[i].of.size
             \/ failures > 0 \/ ~running))

=============================================================================
