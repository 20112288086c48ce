------------------------------- MODULE UdpMain -------------------------------
(***************************************************************************)
(* The C daemon of src/udptoserial (main.c, socket.c, queue.c, serial.c):  *)
(* one thread that opens the serial port, then looks at each UDP socket in *)
(* turn and sends at most one queued packet to the serial port, for ever.  *)
(* Between two of its steps datagrams arrive and time passes.              *)
(*                                                                         *)
(* A queue node is the number of the malloc that made it, so node n holds  *)
(* the n-th packet received.  Absolute times are kept relative to the      *)
(* clock: how long until a retry, and how old a queued packet is.  The     *)
(* text of a packet on the line is module PacketText.                      *)
(***************************************************************************)
EXTENDS Integers, Sequences, FiniteSets

CONSTANTS
    N,            \* UDP_PORT_COUNT
    RetryDelay,   \* the 60 seconds of socket.c, in clock ticks
    Bauds,        \* the rates the serial port may be set to
    PacketLen,    \* the payload bytes of a packet
    MaxInbox,     \* bound: datagrams the kernel holds for a socket
    MaxPackets,   \* bound: packets put into the queue
    MaxErrors     \* bound: system calls that fail

\* What speed_to_bps returns: a rate it knows, 0 for a line that is hung up,
\* and -1 for a rate it does not know.
Rates == {-1, 0, 50, 75, 110, 134, 150, 200, 300, 600, 1200, 1800, 2400, 4800,
          9600, 19200, 38400, 57600, 115200, 230400}

ASSUME Assumptions ==
    /\ N \in Nat \ {0} /\ RetryDelay \in Nat \ {0}
    /\ Bauds \subseteq Rates /\ PacketLen \in Nat \ {0}
    /\ MaxInbox \in Nat /\ MaxPackets \in Nat /\ MaxErrors \in Nat

Ports == 1 .. N

Nodes == 1 .. MaxPackets

NULL == 0

SocketStates == {"UNINITIALIZED", "ADDRESS_ASSIGNED", "CREATING", "CREATED",
                 "BINDING", "READY", "FAILED"}

VARIABLES
    pc,            \* the socket looked at next; N + 1 is the queue, 0 the port
    ret,           \* the result of the last socket call, also across passes
    actions,
    port,          \* <<baud_rate>> of the serial port, or NoPort
    tty,           \* is the descriptor of the serial port open?
    state,         \* state[i]: sockets[i].state
    open,          \* ports whose sockets[i].handle is an open descriptor
    retry_in,      \* creation_time or binding_time, less the clock
    inbox,         \* datagrams the kernel holds for each socket
    queue,         \* the first node, or NULL
    next, prev,    \* the links of the nodes
    allocated,     \* nodes made so far
    freed,         \* nodes passed to free()
    data_freed,    \* nodes whose data was passed to free()
    age,           \* 0 until the clock has moved past the timestamp, then 1
    sent,          \* nodes written to the serial port, in order
    errors

loopVars == <<pc, ret, actions>>

portVars == <<port, tty>>

socketVars == <<state, open, retry_in>>

queueVars == <<queue, next, prev, allocated, freed, data_freed, age>>

vars == <<loopVars, portVars, socketVars, inbox, queueVars, sent, errors>>

NoPort == <<>>

Init ==
    /\ pc = 0 /\ ret = 0 /\ actions = 0
    /\ port = NoPort /\ tty = FALSE
    /\ state = [i \in Ports |-> "UNINITIALIZED"]
    /\ open = {}
    /\ retry_in = [i \in Ports |-> 0]
    /\ inbox = [i \in Ports |-> 0]
    /\ queue = NULL
    /\ next = [n \in Nodes |-> NULL] /\ prev = [n \in Nodes |-> NULL]
    /\ allocated = 0 /\ freed = {} /\ data_freed = {}
    /\ age = [n \in Nodes |-> 0]
    /\ sent = <<>>
    /\ errors = 0

-----------------------------------------------------------------------------
(* Opening the serial port.  The name that make_full_port_name_linux builds *)
(* for "ttyS1" has no terminator, so whether open finds it is not certain. *)

\* Something that is not a tty stays open, although there is no port; after a
\* later error the descriptor is closed.  Without a port the program goes on.
serial_port_new ==
    /\ pc = 0 /\ pc' = 1
    /\ \/ port' = NoPort /\ tty' \in BOOLEAN
       \/ \E baud \in Bauds : port' = <<baud>> /\ tty' = TRUE
    /\ UNCHANGED <<ret, actions, socketVars, inbox, queueVars, sent, errors>>

-----------------------------------------------------------------------------
(* The socket calls: the part of the pass for socket i = pc.               *)

\* The call returns r; the loop goes on.
Return(r) ==
    /\ ret' = r
    /\ actions' = IF r = 0 THEN actions + 1 ELSE actions
    /\ pc' = pc + 1

Fail == errors < MaxErrors /\ errors' = errors + 1

Become(i, st, wait) ==
    /\ state' = [state EXCEPT ![i] = st]
    /\ retry_in' = [retry_in EXCEPT ![i] = wait]

udp_socket_assign_port(i) ==
    /\ state[i] = "UNINITIALIZED"
    /\ Become(i, "ADDRESS_ASSIGNED", 0)
    /\ Return(0)
    /\ UNCHANGED <<open, inbox, queueVars, sent, errors>>

\* Mutant: the descriptor is not kept.
try_create_and_lose_handle(i) ==
    /\ \/ state[i] = "ADDRESS_ASSIGNED"
       \/ state[i] = "CREATING" /\ retry_in[i] = 0
    /\ Become(i, "CREATED", 0)
    /\ Return(0)
    /\ UNCHANGED <<open, inbox, queueVars, sent, errors>>

\* Some errors of socket() are final, the others are retried.
udp_socket_try_create(i) ==
    /\ \/ state[i] = "ADDRESS_ASSIGNED"
       \/ state[i] = "CREATING" /\ retry_in[i] = 0
    /\ \/ /\ Become(i, "CREATED", 0)
          /\ open' = open \cup {i}
          /\ Return(0)
          /\ UNCHANGED errors
       \/ /\ Fail
          /\ \/ Become(i, "FAILED", 0)
             \/ Become(i, "CREATING", RetryDelay)
          /\ Return(-1)
          /\ UNCHANGED open
    /\ UNCHANGED <<inbox, queueVars, sent>>

\* Mutant: an address in use is not retried later but never again.
try_bind_and_stop(i) ==
    /\ \/ state[i] = "CREATED"
       \/ state[i] = "BINDING" /\ retry_in[i] = 0
    /\ \/ /\ Become(i, "READY", 0)
          /\ Return(0)
          /\ UNCHANGED errors
       \/ /\ Fail
          /\ \/ Become(i, "FAILED", 0)
             \/ Become(i, "UNBOUND", 0)
          /\ Return(-1)
    /\ UNCHANGED <<open, inbox, queueVars, sent>>

\* Only EADDRINUSE is retried; after any other error the descriptor of the
\* FAILED socket stays open.
udp_socket_try_bind(i) ==
    /\ \/ state[i] = "CREATED"
       \/ state[i] = "BINDING" /\ retry_in[i] = 0
    /\ \/ /\ Become(i, "READY", 0)
          /\ Return(0)
          /\ UNCHANGED errors
       \/ /\ Fail
          /\ \/ Become(i, "FAILED", 0)
             \/ Become(i, "BINDING", RetryDelay)
          /\ Return(-1)
    /\ UNCHANGED <<open, inbox, queueVars, sent>>

\* try_create and try_bind before their time has come.
NotYet(i) ==
    /\ state[i] \in {"CREATING", "BINDING"} /\ retry_in[i] > 0
    /\ Return(-1)
    /\ UNCHANGED <<socketVars, inbox, queueVars, sent, errors>>

\* Mutant: the queue is not kept when a packet is appended.
append_and_lose_queue ==
    LET n == allocated + 1 IN
    /\ allocated' = n
    /\ next' = [next EXCEPT ![n] = NULL]
    /\ age' = [age EXCEPT ![n] = 0]
    /\ prev' = [prev EXCEPT ![n] = NULL]
    /\ queue' = n
    /\ UNCHANGED <<freed, data_freed>>

\* Follow next from the first node to the one where it is NULL: the walk stays
\* in every set that holds the first node and with a node its successor.
Walk(S) == queue \in S /\ \A n \in S : next[n] # NULL => next[n] \in S

pkt_queue_last ==
    CHOOSE n \in Nodes :
        next[n] = NULL /\ \A S \in SUBSET Nodes : Walk(S) => n \in S

pkt_queue_append ==
    LET n == allocated + 1 IN
    /\ allocated' = n
    /\ age' = [age EXCEPT ![n] = 0]
    /\ \/ /\ queue # NULL
          /\ next' = [next EXCEPT ![pkt_queue_last] = n, ![n] = NULL]
          /\ prev' = [prev EXCEPT ![n] = pkt_queue_last]
          /\ UNCHANGED queue
       \/ /\ queue = NULL
          /\ next' = [next EXCEPT ![n] = NULL]
          /\ prev' = [prev EXCEPT ![n] = NULL]
          /\ queue' = n
    /\ UNCHANGED <<freed, data_freed>>

\* recvfrom does not block: without a datagram the call still returns 0.  A
\* datagram without a payload is taken and forgotten.
udp_socket_msgrecv(i) ==
    /\ state[i] = "READY"
    /\ \/ /\ inbox[i] > 0 /\ allocated < MaxPackets
          /\ inbox' = [inbox EXCEPT ![i] = @ - 1]
          /\ pkt_queue_append
          /\ Return(0)
          /\ UNCHANGED <<socketVars, errors>>
       \/ /\ inbox[i] > 0
          /\ inbox' = [inbox EXCEPT ![i] = @ - 1]
          /\ Return(0)
          /\ UNCHANGED <<socketVars, queueVars, errors>>
       \/ /\ inbox[i] = 0
          /\ Return(0)
          /\ UNCHANGED <<socketVars, inbox, queueVars, errors>>
       \/ /\ Fail
          /\ Become(i, "FAILED", 0)
          /\ open' = open \ {i}
          /\ Return(-1)
          /\ UNCHANGED <<inbox, queueVars>>
    /\ UNCHANGED sent

\* For a FAILED socket nothing is called, and ret is that of an earlier one.
SkipFailed(i) ==
    /\ state[i] = "FAILED"
    /\ Return(ret)
    /\ UNCHANGED <<socketVars, inbox, queueVars, sent, errors>>

CheckSocket ==
    /\ pc \in Ports
    /\ UNCHANGED portVars
    /\ \/ udp_socket_assign_port(pc)
       \/ udp_socket_try_create(pc)
       \/ udp_socket_try_bind(pc)
       \/ NotYet(pc)
       \/ udp_socket_msgrecv(pc)
       \/ SkipFailed(pc)

-----------------------------------------------------------------------------
(* The queue.                                                              *)

\* Mutant: the node is freed before its next is read.
remove_first_and_follow ==
    /\ data_freed' = data_freed \cup {queue}
    /\ freed' = freed \cup {queue}
    /\ queue' = IF next[queue] = NULL THEN queue ELSE next[queue]
    /\ prev' = IF next[queue] = NULL THEN prev
               ELSE [prev EXCEPT ![next[queue]] = NULL]
    /\ UNCHANGED <<next, allocated, age>>

\* The last node's data is freed, the node itself is not.
pkt_queue_remove_first ==
    /\ data_freed' = data_freed \cup {queue}
    /\ \/ /\ next[queue] = NULL
          /\ queue' = NULL
          /\ UNCHANGED <<prev, freed>>
       \/ /\ next[queue] # NULL
          /\ prev' = [prev EXCEPT ![next[queue]] = NULL]
          /\ freed' = freed \cup {queue}
          /\ queue' = next[queue]
    /\ UNCHANGED <<next, allocated, age>>

pkt_estimated_string_length == 14 + ((PacketLen * 4) \div 3)

\* The test of pkt_queue_send, for a packet queued elapsed microseconds ago.
delayed(elapsed, baud) ==
    elapsed * 1000000 * baud < pkt_estimated_string_length

\* At a known rate the first microsecond ends the delay, at any other nothing
\* does (theorem OneMicrosecond), so an age of 1 stands for every later time.
Throttled(n) == port # NoPort /\ delayed(age[n], port[1])

Sendable == queue # NULL /\ ~Throttled(queue)

\* Mutant: the packet stays in the queue.
ServeQueueAndKeep ==
    /\ pc = N + 1
    /\ pc' = 1 /\ actions' = 0
    /\ \/ /\ Sendable
          /\ sent' = Append(sent, queue)
       \/ /\ ~Sendable
          /\ UNCHANGED sent
    /\ UNCHANGED <<ret, portVars, socketVars, inbox, queueVars, errors>>

\* Hands the packet to write().  What fails or is cut short there is reported and
\* forgotten, so "sent" means handed over, not put on the line; without a port
\* the packet is printed.
serial_port_send == sent' = Append(sent, queue)

\* The pass ends with the queue: send the first packet, unless it is too new.
ServeQueue ==
    /\ pc = N + 1
    /\ pc' = 1 /\ actions' = 0
    /\ \/ /\ Sendable
          /\ serial_port_send
          /\ pkt_queue_remove_first
       \/ /\ ~Sendable
          /\ UNCHANGED <<queueVars, sent>>
    /\ UNCHANGED <<ret, portVars, socketVars, inbox, errors>>

-----------------------------------------------------------------------------
(* The world.                                                              *)

\* A datagram reaches a bound socket.
Arrive(i) ==
    /\ state[i] = "READY" /\ inbox[i] < MaxInbox
    /\ inbox' = [inbox EXCEPT ![i] = @ + 1]
    /\ UNCHANGED <<loopVars, portVars, socketVars, queueVars, sent, errors>>

Tick ==
    /\ retry_in' = [i \in Ports |-> IF retry_in[i] > 0 THEN retry_in[i] - 1
                                    ELSE 0]
    /\ age' = [n \in Nodes |-> IF n <= allocated THEN 1 ELSE 0]
    /\ UNCHANGED <<loopVars, portVars, state, open, inbox, queue, next, prev,
                   allocated, freed, data_freed, sent, errors>>

Next ==
    \/ serial_port_new
    \/ CheckSocket
    \/ ServeQueue
    \/ \E i \in Ports : Arrive(i)
    \/ Tick

Spec == Init /\ [][Next]_vars

\* The loop never stops, and neither does the clock.
FairSpec == Spec /\ WF_vars(serial_port_new) /\ WF_vars(CheckSocket)
                 /\ WF_vars(ServeQueue) /\ WF_vars(Tick)

-----------------------------------------------------------------------------
(* Properties.                                                             *)

TypeOK ==
    /\ pc \in 0 .. N + 1 /\ ret \in {0, -1} /\ actions \in 0 .. N
    /\ port \in {NoPort} \cup {<<baud>> : baud \in Bauds} /\ tty \in BOOLEAN
    /\ state \in [Ports -> SocketStates]
    /\ open \subseteq Ports
    /\ retry_in \in [Ports -> 0 .. RetryDelay]
    /\ inbox \in [Ports -> 0 .. MaxInbox]
    /\ queue \in Nodes \cup {NULL}
    /\ next \in [Nodes -> Nodes \cup {NULL}]
    /\ prev \in [Nodes -> Nodes \cup {NULL}]
    /\ allocated \in 0 .. MaxPackets
    /\ freed \subseteq Nodes /\ data_freed \subseteq Nodes
    /\ age \in [Nodes -> 0 .. 1]
    /\ sent \in Seq(Nodes)
    /\ errors \in 0 .. MaxErrors

\* The packets received and not yet sent, oldest first.
Waiting == Len(sent) + 1 .. allocated

\* The linked list is what append and remove_first mean it to be: it starts at
\* the oldest packet not yet sent and links every one of them, in order and in
\* both directions, and none of their nodes or data has been freed.
ListIsTheQueue ==
    /\ queue = IF Waiting = {} THEN NULL ELSE Len(sent) + 1
    /\ \A n \in Waiting :
          /\ next[n] = IF n = allocated THEN NULL ELSE n + 1
          /\ prev[n] = IF n = Len(sent) + 1 THEN NULL ELSE n - 1
          /\ n \notin freed /\ n \notin data_freed

\* Packets leave by the serial port in the order in which they were received,
\* each once and none left out.
SentInOrder == sent = [k \in 1 .. Len(sent) |-> k]

\* Only sockets that gave up are closed: a descriptor that recvfrom, bind or
\* the write to the serial port uses is open.
UsesOpenHandle ==
    /\ \A i \in Ports :
          state[i] \in {"CREATED", "BINDING", "READY"} => i \in open
    /\ port # NoPort => tty

\* Every socket ends up ready or failed, whatever is retried on the way.
SocketsSettle ==
    \A i \in Ports : <>(state[i] \in {"READY", "FAILED"})

\* A packet that was received is eventually sent, throttled or not, if there
\* is no serial port or its rate is one that speed_to_bps knows.  At a rate it
\* does not know (-1) or a hung-up line (0) no packet is ever sent.
PacketsAreSent ==
    /\ \A n \in Nodes :
          (allocated >= n /\ (port # NoPort => port[1] > 0)) ~> Len(sent) >= n
    /\ [](port # NoPort /\ port[1] <= 0 => sent = <<>>)

=============================================================================
