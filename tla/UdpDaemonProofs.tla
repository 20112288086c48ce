--------------------------- MODULE UdpDaemonProofs ---------------------------
(***************************************************************************)
(* Proofs about the C daemon, the one that forwards UDP packets.           *)
(*                                                                         *)
(* Its sockets, its queue and its loop, for every number of sockets and    *)
(* packets, all errors and retries, and every serial port rate.            *)
(*                                                                         *)
(* Base64, in which it writes payloads on the serial line, for all         *)
(* payloads and whatever other characters come between those of the text.  *)
(***************************************************************************)
EXTENDS UdpMain, Base64, SequenceFacts

-----------------------------------------------------------------------------
(* The loop of main(), the sockets and the queue.                          *)

\* Multiplication by a natural number is monotonic.
LEMMA TimesMonotonic ==
    ASSUME NEW a \in Nat, NEW b \in Int, NEW c \in Int, b <= c
    PROVE  a * b <= a * c
BY SMT

\* The estimate of the length of a packet's text.
LEMMA EstimateBounds ==
    /\ pkt_estimated_string_length \in Nat /\ 14 <= pkt_estimated_string_length
    /\ PacketLen <= 1500 => pkt_estimated_string_length <= 2014
BY Assumptions, SMT DEF pkt_estimated_string_length

\* At a rate of 0 or less a packet is held back however long it has waited.
LEMMA UnknownRate ==
    ASSUME NEW elapsed \in Nat, NEW baud \in Int, baud <= 0
    PROVE  delayed(elapsed, baud)
<1> DEFINE micro == elapsed * 1000000
<1>1. micro \in Nat /\ (delayed(elapsed, baud) <=> micro * baud
                                                < pkt_estimated_string_length)
  BY SMT DEF delayed
<1> HIDE DEF micro
<1>2. micro * baud <= micro * 0
  BY <1>1, TimesMonotonic, SMT
<1> QED
  BY <1>1, <1>2, EstimateBounds, SMT

\* The test of pkt_queue_send: a packet is held back in the microsecond in
\* which it was queued, at a rate that is not known for ever, and at the rates
\* of speed_to_bps, which start at 50, no longer.
THEOREM OneMicrosecond ==
    ASSUME NEW elapsed \in Nat, NEW baud \in Int, PacketLen <= 1500
    PROVE  /\ elapsed = 0 => delayed(elapsed, baud)
           /\ baud <= 0 => delayed(elapsed, baud)
           /\ elapsed > 0 /\ baud >= 50 => ~delayed(elapsed, baud)
<1> DEFINE est == pkt_estimated_string_length
           micro == elapsed * 1000000
<1>1. est \in Nat /\ 14 <= est /\ est <= 2014
  BY EstimateBounds, SMT
<1>2. /\ micro \in Nat /\ (elapsed = 0 => micro = 0)
      /\ elapsed > 0 => micro >= 1000000
  BY SMT
<1>3. delayed(elapsed, baud) <=> micro * baud < est
  BY SMT DEF delayed
<1> HIDE DEF est, micro
<1>4. elapsed = 0 => delayed(elapsed, baud)
  BY <1>1, <1>2, <1>3, SMT
<1>5. ASSUME elapsed > 0, baud >= 50 PROVE ~delayed(elapsed, baud)
  <2>1. micro * 1 <= micro * baud
    BY <1>2, <1>5, TimesMonotonic, SMT
  <2> QED
    BY <1>1, <1>2, <1>3, <1>5, <2>1, SMT
<1> QED
  BY <1>4, <1>5, UnknownRate, SMT

-----------------------------------------------------------------------------
\* TypeOK and the three invariants of the run, with what they need of each
\* other: nothing is sent that was not received or freed that was not sent, and
\* a pass counts at most one action for a socket.
IInv ==
    /\ TypeOK
    /\ ListIsTheQueue
    /\ SentInOrder
    /\ UsesOpenHandle
    /\ Len(sent) <= allocated
    /\ freed \subseteq 1 .. Len(sent) /\ data_freed \subseteq 1 .. Len(sent)
    /\ actions = 0 \/ actions < pc

\* How the program starts.
LEMMA InitIInv == Init => IInv
<1> SUFFICES ASSUME Init PROVE IInv
  OBVIOUS
<1>1. TypeOK
  <2>1. pc \in 0 .. N + 1 /\ actions \in 0 .. N
    BY Assumptions DEF Init
  <2>2. /\ retry_in \in [Ports -> 0 .. RetryDelay]
        /\ inbox \in [Ports -> 0 .. MaxInbox]
        /\ allocated \in 0 .. MaxPackets /\ errors \in 0 .. MaxErrors
    BY Assumptions DEF Init
  <2>3. /\ queue \in Nodes \cup {NULL}
        /\ next \in [Nodes -> Nodes \cup {NULL}]
        /\ prev \in [Nodes -> Nodes \cup {NULL}]
        /\ age \in [Nodes -> 0 .. 1]
    BY DEF Init
  <2>4. sent \in Seq(Nodes)
    BY EmptySeq DEF Init
  <2>5. state \in [Ports -> SocketStates]
    BY DEF Init, SocketStates
  <2>6. /\ port \in {NoPort} \cup {<<baud>> : baud \in Bauds}
        /\ tty \in BOOLEAN /\ open \subseteq Ports /\ ret \in {0, -1}
        /\ freed \subseteq Nodes /\ data_freed \subseteq Nodes
    BY Zenon DEF Init
  <2> QED
    BY <2>1, <2>2, <2>3, <2>4, <2>5, <2>6 DEF TypeOK
<1>2. Waiting = {} /\ Len(sent) = 0
  BY DEF Init, Waiting
<1>3. ListIsTheQueue /\ SentInOrder /\ UsesOpenHandle
  BY <1>2 DEF Init, ListIsTheQueue, SentInOrder, UsesOpenHandle
<1> QED
  BY <1>1, <1>2, <1>3 DEF IInv, Init

-----------------------------------------------------------------------------
\* The walk of pkt_queue_append along next ends at the packet received last.
LEMMA LastIsNewest ==
    ASSUME TypeOK, ListIsTheQueue, Waiting # {}
    PROVE  pkt_queue_last = allocated
<1>1. /\ Len(sent) \in Nat /\ allocated \in Nat
      /\ queue = Len(sent) + 1 /\ queue <= allocated
  BY LenProperties, Assumptions DEF TypeOK, ListIsTheQueue, Waiting
<1>2. Waiting \subseteq Nodes /\ Waiting = queue .. allocated
  BY <1>1, Assumptions DEF TypeOK, Waiting, Nodes
<1>3. \A n \in Waiting : next[n] = IF n = allocated THEN NULL ELSE n + 1
  BY DEF ListIsTheQueue
<1>4. Walk(Waiting)
  BY <1>1, <1>2, <1>3 DEF Walk, NULL
<1>5. ASSUME NEW S \in SUBSET Nodes, Walk(S) PROVE allocated \in S
  <2> DEFINE T == {k \in Nat : queue + k <= allocated => queue + k \in S}
  <2>1. 0 \in T
    BY <1>1, <1>5 DEF Walk
  <2>2. ASSUME NEW k \in Nat, k \in T PROVE k + 1 \in T
    <3>1. SUFFICES ASSUME queue + (k + 1) <= allocated
                   PROVE  queue + (k + 1) \in S
      OBVIOUS
    <3>2. queue + k \in S /\ queue + k \in Waiting /\ queue + k # allocated
      BY <1>1, <1>2, <2>2, <3>1
    <3>3. next[queue + k] = queue + (k + 1) /\ queue + (k + 1) # NULL
      BY <1>1, <1>3, <3>2 DEF NULL
    <3> QED
      BY <1>5, <3>2, <3>3 DEF Walk
  <2> HIDE DEF T
  <2>3. Nat \subseteq T
    BY <2>1, <2>2, SetInduction
  <2>4. allocated - queue \in Nat /\ queue + (allocated - queue) = allocated
    BY <1>1
  <2>5. allocated - queue \in T
    BY <2>3, <2>4
  <2> QED
    BY <1>1, <2>4, <2>5 DEF T
<1>6. allocated \in Nodes /\ next[allocated] = NULL
  BY <1>1, <1>2, <1>3
<1>7. ASSUME NEW n \in Nodes, next[n] = NULL,
             \A S \in SUBSET Nodes : Walk(S) => n \in S
      PROVE  n = allocated
  <2>1. n \in Waiting
    BY <1>2, <1>4, <1>7, Zenon
  <2> QED
    BY <1>1, <1>2, <1>3, <1>7, <2>1 DEF NULL
<1> QED
  BY <1>5, <1>6, <1>7 DEF pkt_queue_last

\* What an append does to the list: it is longer by one packet.
LEMMA AppendKeepsList ==
    ASSUME IInv, pkt_queue_append, allocated < MaxPackets, sent' = sent
    PROVE  /\ ListIsTheQueue' /\ Len(sent') <= allocated'
           /\ allocated' \in 0 .. MaxPackets
           /\ queue' \in Nodes \cup {NULL}
           /\ next' \in [Nodes -> Nodes \cup {NULL}]
           /\ prev' \in [Nodes -> Nodes \cup {NULL}]
           /\ age' \in [Nodes -> 0 .. 1]
<1> DEFINE n == allocated + 1
<1>1. /\ TypeOK /\ ListIsTheQueue
      /\ Len(sent) \in Nat /\ allocated \in Nat /\ Len(sent) <= allocated
      /\ allocated' = n /\ n \in Nodes /\ n # NULL /\ Len(sent') = Len(sent)
  BY LenProperties, Assumptions DEF IInv, TypeOK, pkt_queue_append, Nodes, NULL
<1>2. allocated' \in 0 .. MaxPackets /\ age' \in [Nodes -> 0 .. 1]
  BY <1>1, Assumptions DEF TypeOK, pkt_queue_append
<1>3. Waiting' = Waiting \cup {n} /\ n \notin Waiting /\ Waiting \subseteq Nodes
  BY <1>1, Assumptions DEF Waiting, TypeOK, Nodes
<1>4. n \notin freed' /\ n \notin data_freed'
  BY <1>1 DEF IInv, pkt_queue_append
<1>5. CASE queue = NULL
  <2>1. Waiting = {} /\ Len(sent) = allocated
    BY <1>1, <1>5 DEF ListIsTheQueue, Waiting, NULL
  <2>2. /\ queue' = n
        /\ next' = [next EXCEPT ![n] = NULL] /\ prev' = [prev EXCEPT ![n] = NULL]
    BY <1>5 DEF pkt_queue_append
  <2>3. /\ next' \in [Nodes -> Nodes \cup {NULL}] /\ next'[n] = NULL
        /\ prev' \in [Nodes -> Nodes \cup {NULL}] /\ prev'[n] = NULL
    BY <1>1, <2>2 DEF TypeOK
  <2> QED
    BY <1>1, <1>2, <1>3, <1>4, <2>1, <2>2, <2>3 DEF ListIsTheQueue
<1>6. CASE queue # NULL
  <2>1. /\ Waiting # {} /\ queue = Len(sent) + 1
        /\ allocated \in Waiting /\ queue <= allocated
    BY <1>1, <1>6 DEF ListIsTheQueue, Waiting
  <2>2. /\ queue' = queue
        /\ next' = [next EXCEPT ![allocated] = n, ![n] = NULL]
        /\ prev' = [prev EXCEPT ![n] = allocated]
    BY <1>1, <1>6, <2>1, LastIsNewest DEF pkt_queue_append
  <2>3. /\ next' \in [Nodes -> Nodes \cup {NULL}]
        /\ prev' \in [Nodes -> Nodes \cup {NULL}]
        /\ next'[n] = NULL /\ next'[allocated] = n /\ prev'[n] = allocated
    BY <1>1, <1>3, <2>1, <2>2 DEF TypeOK
  <2>4. \A k \in Waiting : k \notin freed' /\ k \notin data_freed'
    BY <1>1 DEF pkt_queue_append, ListIsTheQueue
  <2>5. ASSUME NEW k \in Waiting'
        PROVE  /\ next'[k] = IF k = allocated' THEN NULL ELSE k + 1
               /\ prev'[k] = IF k = Len(sent') + 1 THEN NULL ELSE k - 1
    <3>1. CASE k = n
      <4>1. next'[k] = NULL /\ k = allocated'
        BY <1>1, <2>3, <3>1
      <4>2. prev'[k] = k - 1 /\ k # Len(sent') + 1
        BY <1>1, <2>1, <2>3, <3>1
      <4> QED
        BY <4>1, <4>2
    <3>2. CASE k \in Waiting
      <4>1. k \in Int /\ k # n
        BY <1>3, <3>2 DEF Nodes
      <4>2. /\ next[k] = IF k = allocated THEN NULL ELSE k + 1
            /\ prev[k] = IF k = Len(sent) + 1 THEN NULL ELSE k - 1
        BY <1>1, <3>2 DEF ListIsTheQueue
      <4>3. prev'[k] = prev[k] /\ (k # allocated => next'[k] = next[k])
        BY <1>1, <1>3, <2>2, <3>2, <4>1 DEF TypeOK
      <4>4. next'[k] = k + 1
        BY <2>3, <4>2, <4>3
      <4> QED
        BY <1>1, <4>1, <4>2, <4>3, <4>4
    <3> QED
      BY <1>3, <3>1, <3>2
  <2>6. queue' = IF Waiting' = {} THEN NULL ELSE Len(sent') + 1
    BY <1>1, <1>3, <2>1, <2>2
  <2>7. ListIsTheQueue'
    BY <1>3, <1>4, <2>4, <2>5, <2>6 DEF ListIsTheQueue
  <2> QED
    BY <1>1, <1>2, <2>2, <2>3, <2>7 DEF TypeOK
<1> QED
  BY <1>5, <1>6

\* A pass of the loop that takes the first packet: the list is shorter by it.
LEMMA RemoveKeepsList ==
    ASSUME IInv, queue # NULL, pkt_queue_remove_first,
           sent' = Append(sent, queue)
    PROVE  /\ ListIsTheQueue' /\ SentInOrder'
           /\ Len(sent') <= allocated' /\ sent' \in Seq(Nodes)
           /\ freed' \subseteq 1 .. Len(sent')
           /\ data_freed' \subseteq 1 .. Len(sent')
           /\ queue' \in Nodes \cup {NULL}
           /\ prev' \in [Nodes -> Nodes \cup {NULL}]
<1>1. /\ TypeOK /\ ListIsTheQueue /\ SentInOrder
      /\ Len(sent) \in Nat /\ allocated \in Nat /\ sent \in Seq(Nodes)
      /\ queue = Len(sent) + 1 /\ queue <= allocated /\ queue \in Nodes
  <2>1. TypeOK /\ ListIsTheQueue /\ SentInOrder
    BY DEF IInv
  <2>2. /\ Len(sent) \in Nat /\ allocated \in Nat /\ sent \in Seq(Nodes)
        /\ queue \in Nodes
    BY <2>1, LenProperties DEF TypeOK
  <2>3. Waiting # {} /\ queue = Len(sent) + 1
    BY <2>1 DEF ListIsTheQueue
  <2> QED
    BY <2>1, <2>2, <2>3 DEF Waiting
<1>2. /\ sent' \in Seq(Nodes) /\ Len(sent') = queue
      /\ \A k \in 1 .. Len(sent) : sent'[k] = sent[k]
      /\ sent'[queue] = queue
  BY <1>1, AppendProperties
<1>3. SentInOrder'
  <2>1. \A k \in 1 .. Len(sent') : sent'[k] = k
    BY <1>1, <1>2 DEF SentInOrder
  <2>2. sent' = [k \in 1 .. Len(sent') |-> sent'[k]]
    BY <1>2, LenProperties, Zenon
  <2> QED
    BY <2>1, <2>2 DEF SentInOrder
<1>4. /\ next' = next /\ allocated' = allocated
      /\ freed' \subseteq freed \cup {queue}
      /\ data_freed' = data_freed \cup {queue}
  BY DEF pkt_queue_remove_first
<1>5. freed' \subseteq 1 .. Len(sent') /\ data_freed' \subseteq 1 .. Len(sent')
  <2>1. 1 .. Len(sent) \subseteq 1 .. Len(sent') /\ queue \in 1 .. Len(sent')
    BY <1>1, <1>2
  <2>2. freed \subseteq 1 .. Len(sent) /\ data_freed \subseteq 1 .. Len(sent)
    BY DEF IInv
  <2> QED
    BY <1>4, <2>1, <2>2
<1>6. /\ Waiting = Waiting' \cup {queue} /\ queue \notin Waiting'
      /\ Waiting' = queue + 1 .. allocated /\ Waiting' \subseteq Nodes
  <2>1. Waiting = queue .. allocated /\ Waiting' = queue + 1 .. allocated
    BY <1>1, <1>2, <1>4 DEF Waiting
  <2>2. allocated <= MaxPackets
    BY <1>1, Assumptions DEF TypeOK
  <2> QED
    BY <1>1, <2>1, <2>2, Assumptions DEF Nodes
<1>7. \A n \in Waiting' : n \notin freed' /\ n \notin data_freed'
  BY <1>1, <1>2, <1>5, <1>6
<1>8. next[queue] = IF queue = allocated THEN NULL ELSE queue + 1
  BY <1>1, <1>6 DEF ListIsTheQueue
<1>9. CASE queue = allocated
  <2>1. Waiting' = {} /\ queue' = NULL /\ prev' = prev
    BY <1>1, <1>6, <1>8, <1>9 DEF pkt_queue_remove_first
  <2> QED
    BY <1>1, <1>2, <1>3, <1>4, <1>5, <2>1 DEF ListIsTheQueue, TypeOK
<1>10. CASE queue # allocated
  <2>1. queue + 1 \in Waiting' /\ queue + 1 # NULL
    BY <1>1, <1>6, <1>10 DEF NULL
  <2>2. queue' = queue + 1 /\ prev' = [prev EXCEPT ![queue + 1] = NULL]
    BY <1>8, <1>10, <2>1 DEF pkt_queue_remove_first
  <2>3. ASSUME NEW n \in Waiting'
        PROVE  /\ next'[n] = IF n = allocated' THEN NULL ELSE n + 1
               /\ prev'[n] = IF n = Len(sent') + 1 THEN NULL ELSE n - 1
    <3>1. n \in Waiting /\ n \in Int /\ n \in Nodes /\ n # Len(sent) + 1
      BY <1>1, <1>6 DEF Nodes
    <3>2. next[n] = (IF n = allocated THEN NULL ELSE n + 1) /\ prev[n] = n - 1
      BY <1>1, <3>1 DEF ListIsTheQueue
    <3>3. prev'[n] = IF n = queue + 1 THEN NULL ELSE prev[n]
      BY <1>1, <2>2, <3>1 DEF TypeOK
    <3> QED
      BY <1>2, <1>4, <3>2, <3>3
  <2>4. /\ queue' \in Nodes \cup {NULL}
        /\ prev' \in [Nodes -> Nodes \cup {NULL}]
    BY <1>1, <1>6, <2>1, <2>2, Zenon DEF TypeOK
  <2>5. ListIsTheQueue'
    BY <1>2, <1>7, <2>1, <2>2, <2>3 DEF ListIsTheQueue
  <2> QED
    BY <1>1, <1>2, <1>3, <1>4, <1>5, <2>4, <2>5
<1> QED
  BY <1>9, <1>10

-----------------------------------------------------------------------------
(* IInv in four parts, each about the variables of one part of the state.  *)

LoopOK ==
    /\ pc \in 0 .. N + 1 /\ ret \in {0, -1} /\ actions \in 0 .. N
    /\ actions = 0 \/ actions < pc

PortOK ==
    /\ port \in {NoPort} \cup {<<baud>> : baud \in Bauds} /\ tty \in BOOLEAN
    /\ port # NoPort => tty

SocketsOK ==
    /\ state \in [Ports -> SocketStates]
    /\ open \subseteq Ports
    /\ retry_in \in [Ports -> 0 .. RetryDelay]
    /\ inbox \in [Ports -> 0 .. MaxInbox]
    /\ errors \in 0 .. MaxErrors
    /\ \A i \in Ports :
          state[i] \in {"CREATED", "BINDING", "READY"} => i \in open

QueueOK ==
    /\ queue \in Nodes \cup {NULL}
    /\ next \in [Nodes -> Nodes \cup {NULL}]
    /\ prev \in [Nodes -> Nodes \cup {NULL}]
    /\ allocated \in 0 .. MaxPackets
    /\ freed \subseteq Nodes /\ data_freed \subseteq Nodes
    /\ age \in [Nodes -> 0 .. 1]
    /\ sent \in Seq(Nodes)
    /\ ListIsTheQueue /\ SentInOrder /\ Len(sent) <= allocated
    /\ freed \subseteq 1 .. Len(sent) /\ data_freed \subseteq 1 .. Len(sent)

\* The invariant in four parts, each of which most steps leave alone.
LEMMA Parts ==
    /\ IInv <=> LoopOK /\ PortOK /\ SocketsOK /\ QueueOK
    /\ IInv' <=> LoopOK' /\ PortOK' /\ SocketsOK' /\ QueueOK'
<1>1. IInv <=> LoopOK /\ PortOK /\ SocketsOK /\ QueueOK
  BY SMTT(60) DEF IInv, TypeOK, UsesOpenHandle, LoopOK, PortOK, SocketsOK, QueueOK
<1>2. IInv' <=> LoopOK' /\ PortOK' /\ SocketsOK' /\ QueueOK'
  BY SMTT(60) DEF IInv, TypeOK, UsesOpenHandle, LoopOK, PortOK, SocketsOK, QueueOK
<1> QED
  BY <1>1, <1>2

\* Going on to the next socket counts at most one action.
LEMMA ReturnKeepsLoop ==
    ASSUME LoopOK, pc \in Ports, NEW r \in {0, -1}, Return(r)
    PROVE  LoopOK'
BY Assumptions DEF LoopOK, Return, Ports

\* A socket that changes its state keeps the rule about open descriptors if
\* its own new state does.
LEMMA BecomeKeepsSockets ==
    ASSUME SocketsOK, NEW i \in Ports, NEW st \in SocketStates,
           NEW wait \in 0 .. RetryDelay, Become(i, st, wait),
           inbox' = inbox, errors' \in 0 .. MaxErrors,
           open' \subseteq Ports, open \ {i} \subseteq open',
           st \in {"CREATED", "BINDING", "READY"} => i \in open'
    PROVE  SocketsOK'
<1>1. /\ state' \in [Ports -> SocketStates]
      /\ retry_in' \in [Ports -> 0 .. RetryDelay]
      /\ \A j \in Ports : state'[j] = IF j = i THEN st ELSE state[j]
  BY DEF SocketsOK, Become
<1>2. ASSUME NEW j \in Ports, state'[j] \in {"CREATED", "BINDING", "READY"}
      PROVE  j \in open'
  BY <1>1, <1>2 DEF SocketsOK
<1> QED
  BY <1>1, <1>2 DEF SocketsOK

\* Steps that leave the sockets alone.
LEMMA SocketsUnchanged ==
    ASSUME SocketsOK, UNCHANGED socketVars,
           inbox' \in [Ports -> 0 .. MaxInbox], errors' \in 0 .. MaxErrors
    PROVE  SocketsOK'
BY DEF SocketsOK, socketVars

\* Steps that leave the queue alone.
LEMMA QueueUnchanged ==
    ASSUME QueueOK, UNCHANGED <<queueVars, sent>>
    PROVE  QueueOK'
BY DEF QueueOK, queueVars, ListIsTheQueue, SentInOrder, Waiting

-----------------------------------------------------------------------------
\* Every branch of a look at one socket keeps the invariant.
LEMMA CheckSocketIInv ==
    ASSUME IInv, CheckSocket
    PROVE  IInv'
<1>1. /\ LoopOK /\ PortOK /\ SocketsOK /\ QueueOK
      /\ pc \in Ports /\ UNCHANGED portVars
  BY Parts DEF CheckSocket
<1>2. PortOK'
  BY <1>1 DEF PortOK, portVars
<1>3. /\ 0 \in 0 .. RetryDelay /\ RetryDelay \in 0 .. RetryDelay
      /\ 0 \in {0, -1} /\ -1 \in {0, -1}
      /\ inbox \in [Ports -> 0 .. MaxInbox] /\ errors \in 0 .. MaxErrors
  BY <1>1, Assumptions DEF SocketsOK
<1>4. ASSUME Fail PROVE errors' \in 0 .. MaxErrors
  BY <1>3, <1>4, Assumptions DEF Fail
<1>5. CASE udp_socket_assign_port(pc)
  <2>1. /\ Become(pc, "ADDRESS_ASSIGNED", 0) /\ Return(0)
        /\ UNCHANGED <<open, inbox, errors>> /\ UNCHANGED <<queueVars, sent>>
    BY <1>5 DEF udp_socket_assign_port
  <2>2. SocketsOK'
    BY <1>1, <1>3, <2>1, BecomeKeepsSockets, SMTT(60) DEF SocketStates, SocketsOK
  <2> QED
    BY <1>1, <1>2, <1>3, <2>1, <2>2, ReturnKeepsLoop, QueueUnchanged, Parts
<1>6. CASE udp_socket_try_create(pc)
  <2>1. UNCHANGED inbox /\ UNCHANGED <<queueVars, sent>>
    BY <1>6 DEF udp_socket_try_create
  <2>2. CASE /\ Become(pc, "CREATED", 0) /\ open' = open \cup {pc}
             /\ Return(0) /\ UNCHANGED errors
    <3>1. SocketsOK'
      BY <1>1, <1>3, <2>1, <2>2, BecomeKeepsSockets DEF SocketStates, SocketsOK
    <3> QED
      BY <1>1, <1>2, <1>3, <2>1, <2>2, <3>1,
         ReturnKeepsLoop, QueueUnchanged, Parts, SMTT(60)
  <2>3. CASE /\ Fail /\ Return(-1) /\ UNCHANGED open
             /\ \/ Become(pc, "FAILED", 0)
                \/ Become(pc, "CREATING", RetryDelay)
    <3>1. SocketsOK'
      BY <1>1, <1>3, <1>4, <2>1, <2>3, BecomeKeepsSockets, SMTT(60)
      DEF SocketStates, SocketsOK
    <3> QED
      BY <1>1, <1>2, <1>3, <2>1, <2>3, <3>1,
         ReturnKeepsLoop, QueueUnchanged, Parts, SMTT(60)
  <2> QED
    BY <1>6, <2>2, <2>3 DEF udp_socket_try_create
<1>7. CASE udp_socket_try_bind(pc)
  <2>1. UNCHANGED <<open, inbox>> /\ UNCHANGED <<queueVars, sent>>
    BY <1>7 DEF udp_socket_try_bind
  <2>2. pc \in open
    BY <1>1, <1>7 DEF udp_socket_try_bind, SocketsOK
  <2>3. CASE Become(pc, "READY", 0) /\ Return(0) /\ UNCHANGED errors
    <3>1. SocketsOK'
      BY <1>1, <1>3, <2>1, <2>2, <2>3, BecomeKeepsSockets
      DEF SocketStates, SocketsOK
    <3> QED
      BY <1>1, <1>2, <1>3, <2>1, <2>3, <3>1,
         ReturnKeepsLoop, QueueUnchanged, Parts, SMTT(60)
  <2>4. CASE /\ Fail /\ Return(-1)
             /\ \/ Become(pc, "FAILED", 0)
                \/ Become(pc, "BINDING", RetryDelay)
    <3>1. SocketsOK'
      BY <1>1, <1>3, <1>4, <2>1, <2>2, <2>4, BecomeKeepsSockets
      DEF SocketStates, SocketsOK
    <3> QED
      BY <1>1, <1>2, <1>3, <2>1, <2>4, <3>1,
         ReturnKeepsLoop, QueueUnchanged, Parts, SMTT(60)
  <2> QED
    BY <1>7, <2>3, <2>4 DEF udp_socket_try_bind
<1>8. CASE NotYet(pc)
  <2>1. /\ Return(-1) /\ UNCHANGED socketVars /\ UNCHANGED <<inbox, errors>>
        /\ UNCHANGED <<queueVars, sent>>
    BY <1>8 DEF NotYet
  <2> QED
    BY <1>1, <1>2, <1>3, <2>1, ReturnKeepsLoop, SocketsUnchanged,
       QueueUnchanged, Parts, SMTT(60)
<1>9. CASE udp_socket_msgrecv(pc)
  <2>1. sent' = sent
    BY <1>9 DEF udp_socket_msgrecv
  <2>2. CASE /\ inbox[pc] > 0 /\ inbox' = [inbox EXCEPT ![pc] = @ - 1]
             /\ Return(0) /\ UNCHANGED <<socketVars, errors>>
             /\ \/ pkt_queue_append /\ allocated < MaxPackets
                \/ UNCHANGED queueVars
    <3>1. inbox' \in [Ports -> 0 .. MaxInbox]
      BY <1>1, <1>3, <2>2, Assumptions
    <3>2. SocketsOK' /\ LoopOK'
      BY <1>1, <1>3, <2>2, <3>1, SocketsUnchanged, ReturnKeepsLoop
    <3>3. ASSUME pkt_queue_append, allocated < MaxPackets PROVE QueueOK'
      <4>1. /\ ListIsTheQueue' /\ Len(sent') <= allocated'
            /\ allocated' \in 0 .. MaxPackets
            /\ queue' \in Nodes \cup {NULL}
            /\ next' \in [Nodes -> Nodes \cup {NULL}]
            /\ prev' \in [Nodes -> Nodes \cup {NULL}]
            /\ age' \in [Nodes -> 0 .. 1]
        BY <2>1, <3>3, AppendKeepsList
      <4>2. UNCHANGED <<freed, data_freed>>
        BY <3>3 DEF pkt_queue_append
      <4> QED
        BY <1>1, <2>1, <4>1, <4>2 DEF QueueOK, SentInOrder
    <3>4. QueueOK'
      BY <1>1, <2>1, <2>2, <3>3, QueueUnchanged
    <3> QED
      BY <1>2, <3>2, <3>4, Parts
  <2>3. CASE /\ Return(0) /\ UNCHANGED <<socketVars, errors>>
             /\ UNCHANGED <<inbox, queueVars>>
    BY <1>1, <1>2, <1>3, <2>1, <2>3, ReturnKeepsLoop, SocketsUnchanged,
       QueueUnchanged, Parts, SMTT(60)
  <2>4. CASE /\ Fail /\ Become(pc, "FAILED", 0) /\ open' = open \ {pc}
             /\ Return(-1) /\ UNCHANGED <<inbox, queueVars>>
    <3>1. SocketsOK'
      BY <1>1, <1>3, <1>4, <2>4, BecomeKeepsSockets DEF SocketStates, SocketsOK
    <3> QED
      BY <1>1, <1>2, <1>3, <2>1, <2>4, <3>1,
         ReturnKeepsLoop, QueueUnchanged, Parts, SMTT(60)
  <2> QED
    BY <1>9, <2>2, <2>3, <2>4, SMTT(60) DEF udp_socket_msgrecv
<1>10. CASE SkipFailed(pc)
  <2>1. /\ Return(ret) /\ ret \in {0, -1} /\ UNCHANGED socketVars
        /\ UNCHANGED <<inbox, errors>> /\ UNCHANGED <<queueVars, sent>>
    BY <1>1, <1>10 DEF SkipFailed, LoopOK
  <2> QED
    BY <1>1, <1>2, <1>3, <2>1, ReturnKeepsLoop, SocketsUnchanged,
       QueueUnchanged, Parts, SMTT(60)
<1> QED
  BY <1>5, <1>6, <1>7, <1>8, <1>9, <1>10 DEF CheckSocket

\* The pass over the queue: it sends and frees the head, or waits.
LEMMA ServeQueueIInv ==
    ASSUME IInv, ServeQueue
    PROVE  IInv'
<1>1. LoopOK /\ PortOK /\ SocketsOK /\ QueueOK
  BY Parts
<1>2. LoopOK'
  BY <1>1, Assumptions DEF ServeQueue, LoopOK
<1>3. PortOK' /\ SocketsOK'
  <2>1. UNCHANGED portVars /\ UNCHANGED socketVars /\ UNCHANGED <<inbox, errors>>
    BY DEF ServeQueue, serial_port_send
  <2> QED
    BY <1>1, <2>1, SocketsUnchanged DEF PortOK, portVars, SocketsOK
<1>4. CASE Sendable /\ sent' = Append(sent, queue) /\ pkt_queue_remove_first
  <2>1. /\ ListIsTheQueue' /\ SentInOrder'
        /\ Len(sent') <= allocated' /\ sent' \in Seq(Nodes)
        /\ freed' \subseteq 1 .. Len(sent')
        /\ data_freed' \subseteq 1 .. Len(sent')
        /\ queue' \in Nodes \cup {NULL}
        /\ prev' \in [Nodes -> Nodes \cup {NULL}]
    BY <1>4, RemoveKeepsList DEF Sendable
  <2>2. /\ UNCHANGED <<next, allocated, age>> /\ queue \in Nodes
        /\ freed' \subseteq freed \cup {queue}
        /\ data_freed' = data_freed \cup {queue}
    BY <1>1, <1>4 DEF pkt_queue_remove_first, Sendable, QueueOK
  <2>3. QueueOK'
    BY <1>1, <2>1, <2>2 DEF QueueOK
  <2> QED
    BY <1>2, <1>3, <2>3, Parts
<1>5. CASE UNCHANGED <<queueVars, sent>>
  BY <1>1, <1>2, <1>3, <1>5, QueueUnchanged, Parts
<1> QED
  BY <1>4, <1>5 DEF ServeQueue, serial_port_send

\* Every step keeps the invariant.
LEMMA NextIInv == IInv /\ [Next]_vars => IInv'
<1> SUFFICES ASSUME IInv, [Next]_vars PROVE IInv'
  OBVIOUS
<1>1. LoopOK /\ PortOK /\ SocketsOK /\ QueueOK
  BY Parts
<1>2. CASE serial_port_new
  <2>1. LoopOK'
    BY <1>1, <1>2, Assumptions DEF serial_port_new, LoopOK
  <2>2. PortOK'
    BY <1>2, Zenon DEF serial_port_new, PortOK
  <2>3. /\ UNCHANGED socketVars /\ UNCHANGED <<inbox, errors>>
        /\ UNCHANGED <<queueVars, sent>>
    BY <1>2 DEF serial_port_new
  <2>4. SocketsOK' /\ QueueOK'
    BY <1>1, <2>3, SocketsUnchanged, QueueUnchanged DEF SocketsOK
  <2> QED
    BY <2>1, <2>2, <2>4, Parts
<1>3. CASE CheckSocket
  BY <1>3, CheckSocketIInv
<1>4. CASE ServeQueue
  BY <1>4, ServeQueueIInv
<1>5. ASSUME NEW i \in Ports, Arrive(i) PROVE IInv'
  <2>1. /\ UNCHANGED loopVars /\ UNCHANGED portVars /\ UNCHANGED socketVars
        /\ UNCHANGED errors /\ UNCHANGED <<queueVars, sent>>
        /\ inbox[i] < MaxInbox /\ inbox' = [inbox EXCEPT ![i] = @ + 1]
    BY <1>5 DEF Arrive
  <2>2. inbox' \in [Ports -> 0 .. MaxInbox]
    BY <1>1, <2>1, Assumptions DEF SocketsOK
  <2>3. LoopOK' /\ PortOK'
    BY <1>1, <2>1 DEF LoopOK, PortOK, loopVars, portVars
  <2>4. SocketsOK' /\ QueueOK'
    BY <1>1, <2>1, <2>2, SocketsUnchanged, QueueUnchanged DEF SocketsOK
  <2> QED
    BY <2>3, <2>4, Parts
<1>6. CASE Tick
  <2>1. LoopOK' /\ PortOK'
    BY <1>1, <1>6 DEF Tick, LoopOK, PortOK, loopVars, portVars
  <2>2. retry_in' \in [Ports -> 0 .. RetryDelay]
    BY <1>1, <1>6, Assumptions DEF Tick, SocketsOK
  <2>3. SocketsOK'
    BY <1>1, <1>6, <2>2 DEF Tick, SocketsOK
  <2>4. age' \in [Nodes -> 0 .. 1]
    BY <1>6 DEF Tick
  <2>5. QueueOK'
    BY <1>1, <1>6, <2>4 DEF Tick, QueueOK, ListIsTheQueue, SentInOrder, Waiting
  <2> QED
    BY <2>1, <2>3, <2>5, Parts, SMTT(60)
<1>7. CASE UNCHANGED vars
  <2>1. /\ UNCHANGED loopVars /\ UNCHANGED portVars /\ UNCHANGED socketVars
        /\ UNCHANGED <<inbox, errors>> /\ UNCHANGED <<queueVars, sent>>
    BY <1>7 DEF vars
  <2>2. LoopOK' /\ PortOK'
    BY <1>1, <2>1 DEF LoopOK, PortOK, loopVars, portVars
  <2>3. SocketsOK' /\ QueueOK'
    BY <1>1, <2>1, SocketsUnchanged, QueueUnchanged DEF SocketsOK
  <2> QED
    BY <2>2, <2>3, Parts
<1> QED
  BY <1>2, <1>3, <1>4, <1>5, <1>6, <1>7 DEF Next

-----------------------------------------------------------------------------
\* IInv holds in every state of the program.
THEOREM Invariance == Spec => []IInv
BY InitIInv, NextIInv, PTL DEF Spec

\* Every variable keeps its type, the counters their bounds.
THEOREM TypeCorrect == Spec => []TypeOK
<1>1. IInv => TypeOK
  BY DEF IInv
<1> QED
  BY <1>1, Invariance, PTL

\* The linked list of queue.c, with its manual prev and next and its frees,
\* always is the queue of the packets received and not yet sent.
THEOREM ListCorrect == Spec => []ListIsTheQueue
<1>1. IInv => ListIsTheQueue
  BY DEF IInv
<1> QED
  BY <1>1, Invariance, PTL

\* Packets are written to the line in the order received, each exactly once.
THEOREM OrderCorrect == Spec => []SentInOrder
<1>1. IInv => SentInOrder
  BY DEF IInv
<1> QED
  BY <1>1, Invariance, PTL

\* bind, recvfrom and the write to the line only ever use open descriptors.
THEOREM HandlesCorrect == Spec => []UsesOpenHandle
<1>1. IInv => UsesOpenHandle
  BY DEF IInv
<1> QED
  BY <1>1, Invariance, PTL

-----------------------------------------------------------------------------
\* Nothing is sent before the port is opened, or through a port whose rate
\* speed_to_bps does not know or that is hung up.
Quiet ==
    /\ pc = 0 => sent = <<>>
    /\ port # NoPort /\ port[1] <= 0 => sent = <<>>

\* No step sends at a rate that is not known.
LEMMA NextQuiet == IInv /\ Quiet /\ [Next]_vars => Quiet'
<1> SUFFICES ASSUME IInv, Quiet, [Next]_vars PROVE Quiet'
  OBVIOUS
<1>1. LoopOK /\ PortOK /\ QueueOK
  BY Parts
<1>2. CASE serial_port_new
  BY <1>2 DEF serial_port_new, Quiet
<1>3. CASE CheckSocket
  <2>1. pc' = pc + 1 /\ pc' # 0 /\ sent' = sent
    BY <1>1, <1>3 DEF CheckSocket, Ports, Return, udp_socket_assign_port,
       udp_socket_try_create, udp_socket_try_bind, NotYet, udp_socket_msgrecv,
       SkipFailed
  <2> QED
    BY <1>3, <2>1, SMTT(60) DEF CheckSocket, portVars, Quiet
<1>4. CASE ServeQueue
  <2>1. pc' = 1 /\ port' = port
    BY <1>4 DEF ServeQueue, portVars
  <2>2. CASE sent' = sent
    BY <2>1, <2>2 DEF Quiet
  <2>3. CASE Sendable
    <3>1. ASSUME port # NoPort PROVE ~(port[1] <= 0)
      <4>1. port[1] \in Int
        BY <1>1, <3>1, Assumptions DEF PortOK, Rates
      <4>2. age[queue] \in Nat
        BY <1>1, <2>3 DEF QueueOK, Sendable
      <4>3. ~delayed(age[queue], port[1])
        BY <2>3, <3>1, SMTT(60) DEF Sendable, Throttled
      <4> QED
        BY <4>1, <4>2, <4>3, UnknownRate
    <3> QED
      BY <2>1, <3>1 DEF Quiet
  <2> QED
    BY <1>4, <2>2, <2>3 DEF ServeQueue, serial_port_send
<1>5. CASE (\E i \in Ports : Arrive(i)) \/ Tick \/ UNCHANGED vars
  BY <1>5 DEF Arrive, Tick, vars, loopVars, portVars, Quiet
<1> QED
  BY <1>2, <1>3, <1>4, <1>5 DEF Next

\* At a rate that speed_to_bps does not know (-1), or that is 0, the throttle
\* of queue.c never lets a packet pass: the safety half of PacketsAreSent.
THEOREM UnknownRateSendsNothing ==
    Spec => [](port # NoPort /\ port[1] <= 0 => sent = <<>>)
<1>1. Init => Quiet
  BY DEF Init, Quiet
<1>2. Quiet => (port # NoPort /\ port[1] <= 0 => sent = <<>>)
  BY DEF Quiet
<1> QED
  BY <1>1, <1>2, NextQuiet, Invariance, PTL DEF Spec

-----------------------------------------------------------------------------
(* Base64.                                                                 *)

\* The byte strings of a host.
LEMMA BytesAreNumbers ==
    ASSUME NEW S, S \subseteq Nat, NEW q \in Seq(S)
    PROVE  q \in Octets
<1>1. Len(q) \in Nat /\ q \in [1 .. Len(q) -> S]
  BY LenProperties
<1>2. q \in [1 .. Len(q) -> Nat]
  BY <1>1, Zenon
<1> QED
  BY <1>1, <1>2, SeqDef DEF Octets

\* Two sequences of numbers one after the other.
LEMMA OneThenOther ==
    ASSUME NEW u \in Seq(Nat), NEW v \in Seq(Nat)
    PROVE  /\ u \o v \in Seq(Nat) /\ Len(u \o v) = Len(u) + Len(v)
           /\ \A i \in 1 .. Len(u) : (u \o v)[i] = u[i]
           /\ \A i \in 1 .. Len(v) : (u \o v)[Len(u) + i] = v[i]
OBVIOUS

\* f is the parts one after the other, all of them w long.
Blocks(f, parts, w) ==
    /\ Len(f) = w * Len(parts)
    /\ \A k \in 1 .. Len(parts), j \in 1 .. w : f[w * (k - 1) + j] = parts[k][j]

\* One more part.
LEMMA OneMoreBlock ==
    ASSUME NEW w \in {3, 4}, NEW s \in Seq(Octets), NEW e \in Octets, Len(e) = w,
           NEW f \in Octets, Blocks(f, s, w)
    PROVE  Blocks(f \o e, Append(s, e), w)
<1> DEFINE g == f \o e
           p == Append(s, e)
           L == Len(s)
<1>1. /\ L \in Nat /\ Len(p) = L + 1 /\ p[L + 1] = e
      /\ \A k \in 1 .. L : p[k] = s[k]
  OBVIOUS
<1>2. /\ Len(f) \in Nat /\ Len(g) = Len(f) + w
      /\ \A i \in 1 .. Len(f) : g[i] = f[i]
      /\ \A j \in 1 .. w : g[Len(f) + j] = e[j]
  BY DEF Octets
<1>3. Len(f) = w * L /\ \A k \in 1 .. L, j \in 1 .. w : f[w * (k - 1) + j] = s[k][j]
  BY SMTT(60) DEF Blocks
<1> HIDE DEF g, p, L
<1>4. Len(g) = w * Len(p)
  <2>1. w * (L + 1) = w * L + w
    BY <1>1
  <2> QED
    BY <1>1, <1>2, <1>3, <2>1
<1>5. ASSUME NEW k \in 1 .. Len(p), NEW j \in 1 .. w
      PROVE  g[w * (k - 1) + j] = p[k][j]
  <2>1. CASE k = L + 1
    <3>1. w * (k - 1) = Len(f)
      BY <1>1, <1>3, <2>1
    <3> QED
      BY <1>1, <1>2, <2>1, <3>1, Zenon
  <2>2. CASE k # L + 1
    <3>1. k \in 1 .. L
      BY <1>1, <2>2
    <3>2. w * (k - 1) + j \in 1 .. w * L
      BY <1>1, <3>1
    <3>3. f[w * (k - 1) + j] = s[k][j] /\ p[k] = s[k]
      BY <1>1, <1>3, <3>1, SMTT(60)
    <3>4. g[w * (k - 1) + j] = f[w * (k - 1) + j]
      BY <1>2, <1>3, <3>2
    <3> QED
      BY <3>3, <3>4
  <2> QED
    BY <2>1, <2>2
<1> QED
  BY <1>4, <1>5, Zenon DEF Blocks, g, p

\* Parts of one length are found at the multiples of it.
LEMMA FlattenBlocks ==
    ASSUME NEW w \in {3, 4}, NEW s \in Seq(Octets), \A k \in 1 .. Len(s) : Len(s[k]) = w
    PROVE  Flatten(s) \in Octets /\ Blocks(Flatten(s), s, w)
<1> DEFINE Of(u) == \A k \in 1 .. Len(u) : Len(u[k]) = w
           T == {u \in Seq(Octets) : Of(u) => Blocks(Flatten(u), u, w)}
<1>1. <<>> \in T
  <2>1. Flatten(<<>>) = <<>> /\ <<>> \in Seq(Octets) /\ Len(<<>>) = 0 /\ w * 0 = 0
    BY FlattenEmpty
  <2>2. Blocks(<<>>, <<>>, w)
    BY <2>1 DEF Blocks
  <2> QED
    BY <2>1, <2>2
<1>2. ASSUME NEW u \in Seq(Octets), NEW e \in Octets, u \in T PROVE Append(u, e) \in T
  <2>1. Append(u, e) \in Seq(Octets)
    OBVIOUS
  <2> SUFFICES ASSUME Of(Append(u, e)) PROVE Blocks(Flatten(Append(u, e)), Append(u, e), w)
    BY <2>1, Zenon
  <2>2. /\ Len(Append(u, e)) = Len(u) + 1 /\ Append(u, e)[Len(u) + 1] = e
        /\ Len(u) \in Nat /\ \A k \in 1 .. Len(u) : Append(u, e)[k] = u[k]
    OBVIOUS
  <2>3. Of(u) /\ Len(e) = w
    BY <2>2
  <2>4. Blocks(Flatten(u), u, w)
    BY <1>2, <2>3
  <2>5. Flatten(u) \in Octets /\ Flatten(Append(u, e)) = Flatten(u) \o e
    BY FlattenTyped, FlattenAppend
  <2>6. PICK f \in Octets : f = Flatten(u)
    BY <2>5
  <2>7. Blocks(f \o e, Append(u, e), w)
    BY <2>3, <2>4, <2>6, OneMoreBlock, Zenon
  <2> QED
    BY <2>5, <2>6, <2>7
<1> HIDE DEF T
<1>3. Seq(Octets) \subseteq T
  BY <1>1, <1>2, SeqInduction
<1>4. s \in T
  BY <1>3
<1> QED
  BY <1>4, FlattenTyped DEF T

\* The bytes a group of three has where the payload has ended.
ByteAt(s, i) == IF i <= Len(s) THEN s[i] ELSE 0

Group(s, k) == block_of(ByteAt(s, 3 * k - 2), ByteAt(s, 3 * k - 1), ByteAt(s, 3 * k))

\* The groups of three, and the bytes missing from the last one.
Groups(n) == (n + 2) \div 3
Missing(n) == (3 - (n % 3)) % 3

\* t is the text of s: the characters of its groups, up to the pad characters.
TextOf(t, s) ==
    /\ t \in Octets /\ Len(t) = 4 * Groups(Len(s))
    /\ \A k \in 1 .. Groups(Len(s)), j \in 1 .. 4 :
          t[4 * (k - 1) + j] = IF 4 * (k - 1) + j <= Len(t) - Missing(Len(s))
                               THEN Group(s, k)[j] ELSE Pad

\* Four characters of the alphabet, and zeros where bytes are missing.
LEMMA BlockTyped ==
    ASSUME NEW a \in 0 .. 255, NEW b \in 0 .. 255, NEW c \in 0 .. 255
    PROVE  /\ block_of(a, b, c) \in Octets /\ Len(block_of(a, b, c)) = 4
           /\ \A j \in 1 .. 4 : block_of(a, b, c)[j] \in 0 .. 63
           /\ c = 0 => block_of(a, b, c)[4] = 0
           /\ b = 0 /\ c = 0 => block_of(a, b, c)[3] = 0
<1>1. PICK x, y, z, v : /\ x = a \div 4 /\ y = (a % 4) * 16 + (b \div 16)
                        /\ z = (b % 16) * 4 + (c \div 64) /\ v = c % 64
  OBVIOUS
<1>2. x \in 0 .. 63 /\ y \in 0 .. 63 /\ z \in 0 .. 63 /\ v \in 0 .. 63
  BY <1>1
<1>3. (c = 0 => v = 0) /\ (b = 0 /\ c = 0 => z = 0)
  BY <1>1
<1>4. block_of(a, b, c) = <<x, y, z, v>>
  BY <1>1 DEF block_of
<1>5. <<x, y, z, v>> \in Octets
  BY <1>2 DEF Octets
<1> QED
  BY <1>2, <1>3, <1>4, <1>5

\* The bytes of a payload and the zeros after it.
LEMMA ByteTyped ==
    ASSUME NEW s \in Seq(0 .. 255), NEW i \in Nat, i >= 1
    PROVE  ByteAt(s, i) \in 0 .. 255
<1>1. CASE i <= Len(s)
  <2>1. i \in 1 .. Len(s)
    BY <1>1
  <2>2. s[i] \in 0 .. 255
    BY <2>1, ElementOfSeq, Zenon
  <2> QED
    BY <1>1, <2>2 DEF ByteAt
<1>2. CASE ~(i <= Len(s))
  BY <1>2 DEF ByteAt
<1> QED
  BY <1>1, <1>2

\* The characters of a group.
LEMMA GroupTyped ==
    ASSUME NEW s \in Seq(0 .. 255), NEW k \in Nat, k >= 1
    PROVE  /\ Group(s, k) \in Octets /\ Len(Group(s, k)) = 4
           /\ \A j \in 1 .. 4 : Group(s, k)[j] \in 0 .. 63
           /\ 3 * k > Len(s) => Group(s, k)[4] = 0
           /\ 3 * k - 1 > Len(s) => Group(s, k)[3] = 0
<1>1. PICK a, b, c : a = ByteAt(s, 3 * k - 2) /\ b = ByteAt(s, 3 * k - 1) /\ c = ByteAt(s, 3 * k)
  BY SMTT(60)
<1>2. a \in 0 .. 255 /\ b \in 0 .. 255 /\ c \in 0 .. 255
  BY <1>1, ByteTyped, SMTT(60)
<1>3. (3 * k > Len(s) => c = 0) /\ (3 * k - 1 > Len(s) => b = 0 /\ c = 0)
  BY <1>1 DEF ByteAt
<1>4. Group(s, k) = block_of(a, b, c)
  BY <1>1 DEF Group
<1>5. PICK q : q = Group(s, k)
  OBVIOUS
<1>6. /\ block_of(a, b, c) \in Octets /\ Len(block_of(a, b, c)) = 4
      /\ \A j \in 1 .. 4 : block_of(a, b, c)[j] \in 0 .. 63
      /\ c = 0 => block_of(a, b, c)[4] = 0
      /\ b = 0 /\ c = 0 => block_of(a, b, c)[3] = 0
  BY <1>2, BlockTyped, ZenonT(60)
<1>7. /\ q \in Octets /\ Len(q) = 4 /\ (\A j \in 1 .. 4 : q[j] \in 0 .. 63)
      /\ (c = 0 => q[4] = 0) /\ (b = 0 /\ c = 0 => q[3] = 0)
  <2>1. q = block_of(a, b, c)
    BY <1>4, <1>5
  <2> QED
    BY <1>6, <2>1
<1> QED
  BY <1>3, <1>5, <1>7, Zenon

\* How a payload divides into groups.
LEMMA GroupsCount ==
    ASSUME NEW n \in Nat
    PROVE  /\ Groups(n) \in Nat /\ Missing(n) \in 0 .. 2 /\ n \div 3 \in Nat
           /\ 3 * Groups(n) = n + Missing(n)
           /\ n % 3 = 0 => Groups(n) = n \div 3 /\ Missing(n) = 0 /\ n = 3 * (n \div 3)
           /\ n % 3 = 1 => Groups(n) = n \div 3 + 1 /\ Missing(n) = 2 /\ n = 3 * (n \div 3) + 1
           /\ n % 3 = 2 => Groups(n) = n \div 3 + 1 /\ Missing(n) = 1 /\ n = 3 * (n \div 3) + 2
           /\ n % 3 \in 0 .. 2
<1>1. PICK d \in Nat, r \in 0 .. 2 : n = 3 * d + r /\ d = n \div 3 /\ r = n % 3
  OBVIOUS
<1>2. CASE r = 0
  <2>1. n + 2 = 3 * d + 2 /\ (n + 2) \div 3 = d
    BY <1>1, <1>2
  <2> QED
    BY <1>1, <1>2, <2>1 DEF Groups, Missing
<1>3. CASE r = 1
  <2>1. n + 2 = 3 * (d + 1) /\ (n + 2) \div 3 = d + 1
    BY <1>1, <1>3
  <2> QED
    BY <1>1, <1>3, <2>1 DEF Groups, Missing
<1>4. CASE r = 2
  <2>1. n + 2 = 3 * (d + 1) + 1 /\ (n + 2) \div 3 = d + 1
    BY <1>1, <1>4
  <2> QED
    BY <1>1, <1>4, <2>1 DEF Groups, Missing
<1> QED
  BY <1>1, <1>2, <1>3, <1>4

\* The groups of a length, when it is known how often three goes into it.
LEMMA GroupsOf ==
    ASSUME NEW n \in Nat, NEW d \in Nat, NEW r \in 0 .. 2, n = 3 * d + r
    PROVE  /\ n \div 3 = d
           /\ r = 0 => Groups(n) = d /\ Missing(n) = 0
           /\ r = 1 => Groups(n) = d + 1 /\ Missing(n) = 2
           /\ r = 2 => Groups(n) = d + 1 /\ Missing(n) = 1
<1>1. n % 3 = r /\ n \div 3 = d
  OBVIOUS
<1> QED
  BY <1>1, GroupsCount, ZenonT(60)

\* The characters of the first d groups.
GroupsLaid(f, s, d) ==
    /\ f \in Octets /\ Len(f) = 4 * d
    /\ \A k \in 1 .. d, j \in 1 .. 4 : f[4 * (k - 1) + j] = Group(s, k)[j]

\* The characters of the group after them, of which the payload has r bytes.
LastLaid(e, s, d, r) ==
    /\ e \in Octets /\ Len(e) = 4
    /\ \A j \in 1 .. 4 : e[j] = IF j <= r + 1 THEN Group(s, d + 1)[j] ELSE Pad

\* The text of a payload that ends with a whole group.
LEMMA WholeText ==
    ASSUME NEW s \in Seq(0 .. 255), NEW f, NEW d \in Nat, Len(s) = 3 * d, GroupsLaid(f, s, d)
    PROVE  TextOf(f, s)
<1>1. Groups(Len(s)) = d /\ Missing(Len(s)) = 0
  <2>1. PICK n \in Nat : n = Len(s) /\ n = 3 * d + 0
    OBVIOUS
  <2> QED
    BY <2>1, GroupsOf
<1>2. \A k \in 1 .. d, j \in 1 .. 4 : 4 * (k - 1) + j <= 4 * d - 0
  OBVIOUS
<1>3. f \in Octets /\ Len(f) = 4 * d
  BY DEF GroupsLaid
<1>4. \A k \in 1 .. d, j \in 1 .. 4 :
          f[4 * (k - 1) + j] = IF 4 * (k - 1) + j <= Len(f) - 0 THEN Group(s, k)[j] ELSE Pad
  BY <1>2, <1>3, Zenon DEF GroupsLaid
<1> QED
  BY <1>1, <1>3, <1>4, Zenon DEF TextOf

\* The text of a payload that leaves one or two bytes for the last group.
LEMMA PartText ==
    ASSUME NEW s \in Seq(0 .. 255), NEW f, NEW d \in Nat, NEW r \in 1 .. 2,
           Len(s) = 3 * d + r, GroupsLaid(f, s, d), NEW e, LastLaid(e, s, d, r)
    PROVE  TextOf(f \o e, s)
<1>1. Groups(Len(s)) = d + 1 /\ Missing(Len(s)) = 3 - r
  <2>1. PICK n \in Nat : n = Len(s) /\ n = 3 * d + r
    OBVIOUS
  <2>2. (r = 1 \/ r = 2) /\ r \in 0 .. 2
    OBVIOUS
  <2> QED
    BY <2>1, <2>2, GroupsOf
<1>2. f \in Octets /\ Len(f) = 4 * d /\ e \in Octets /\ Len(e) = 4
  BY DEF GroupsLaid, LastLaid
<1>3. PICK t : t = f \o e
  BY Zenon
<1>4. /\ t \in Octets /\ Len(t) = Len(f) + Len(e)
      /\ \A i \in 1 .. Len(f) : t[i] = f[i]
      /\ \A j \in 1 .. Len(e) : t[Len(f) + j] = e[j]
  BY <1>2, <1>3, OneThenOther, Zenon DEF Octets
<1>5. Len(t) = 4 * (d + 1) /\ Len(t) = 4 * d + 4
  BY <1>2, <1>4, SMTT(60)
<1>6. ASSUME NEW k \in 1 .. d + 1, NEW j \in 1 .. 4
      PROVE  t[4 * (k - 1) + j] = IF 4 * (k - 1) + j <= Len(t) - (3 - r)
                                  THEN Group(s, k)[j] ELSE Pad
  <2>1. CASE k = d + 1
    <3>1. 4 * (k - 1) + j = 4 * d + j
      BY <2>1
    <3>2. 4 * d + j <= Len(t) - (3 - r) <=> j <= r + 1
      BY <1>5
    <3>3. t[4 * d + j] = e[j]
      BY <1>2, <1>4, Zenon
    <3>4. e[j] = IF j <= r + 1 THEN Group(s, d + 1)[j] ELSE Pad
      BY SMTT(60) DEF LastLaid
    <3> QED
      BY <2>1, <3>1, <3>2, <3>3, <3>4, SMTT(60)
  <2>2. CASE k # d + 1
    <3>1. k \in 1 .. d
      BY <2>2
    <3>2. 4 * (k - 1) + j \in 1 .. 4 * d /\ 4 * (k - 1) + j <= Len(t) - (3 - r)
      BY <1>5, <3>1
    <3>3. t[4 * (k - 1) + j] = f[4 * (k - 1) + j]
      BY <1>2, <1>4, <3>2
    <3>4. f[4 * (k - 1) + j] = Group(s, k)[j]
      BY <3>1, Zenon DEF GroupsLaid
    <3> QED
      BY <3>2, <3>3, <3>4
  <2> QED
    BY <2>1, <2>2, SMTT(60)
<1>7. TextOf(t, s)
  BY <1>1, <1>4, <1>5, <1>6, Zenon DEF TextOf
<1> QED
  BY <1>3, <1>7

\* The characters of the whole groups.
LEMMA WholeGroups ==
    ASSUME NEW s \in Seq(0 .. 255), NEW d \in Nat, 3 * d <= Len(s)
    PROVE  GroupsLaid(Flatten([k \in 1 .. d |->
                          block_of(s[3 * k - 2], s[3 * k - 1], s[3 * k])]), s, d)
<1>1. PICK p : p = [k \in 1 .. d |-> block_of(s[3 * k - 2], s[3 * k - 1], s[3 * k])]
  BY Zenon
<1>2. ASSUME NEW k \in 1 .. d PROVE p[k] = Group(s, k) /\ p[k] \in Octets /\ Len(p[k]) = 4
  <2>1. 3 * k - 2 <= Len(s) /\ 3 * k - 1 <= Len(s) /\ 3 * k <= Len(s) /\ k \in Nat /\ k >= 1
    OBVIOUS
  <2>2. p[k] = block_of(s[3 * k - 2], s[3 * k - 1], s[3 * k])
    BY <1>1
  <2>3. p[k] = Group(s, k)
    BY <2>1, <2>2, Zenon DEF Group, ByteAt
  <2> QED
    BY <2>1, <2>3, GroupTyped
<1>3. p \in Seq(Octets) /\ Len(p) = d
  <2>1. p \in [1 .. d -> Octets]
    BY <1>1, <1>2, Zenon
  <2> QED
    BY <2>1
<1>4. PICK f : f = Flatten(p)
  OBVIOUS
<1>5. f \in Octets /\ Blocks(f, p, 4)
  <2>1. \A k \in 1 .. Len(p) : Len(p[k]) = 4
    BY <1>2, <1>3
  <2> QED
    BY <1>3, <1>4, <2>1, FlattenBlocks
<1>6. Len(f) = 4 * d /\ \A k \in 1 .. d, j \in 1 .. 4 : f[4 * (k - 1) + j] = p[k][j]
  BY <1>3, <1>5, Zenon DEF Blocks
<1>7. GroupsLaid(f, s, d)
  BY <1>2, <1>5, <1>6, Zenon DEF GroupsLaid
<1> QED
  BY <1>1, <1>4, <1>7, Zenon

\* The bytes from the m-th on.
LEMMA BytesFrom ==
    ASSUME NEW S, NEW s \in Seq(S), NEW m \in Nat, m >= 1, m <= Len(s) + 1
    PROVE  /\ Len(SubSeq(s, m, Len(s))) = Len(s) + 1 - m
           /\ \A i \in 1 .. Len(s) + 1 - m : SubSeq(s, m, Len(s))[i] = s[m + i - 1]
<1>1. Len(s) \in Nat /\ Len(s) \in Int /\ m \in Int
  OBVIOUS
<1> QED
  BY <1>1, SMTT(30)

\* The first m bytes.
LEMMA BytesUpTo ==
    ASSUME NEW g \in Seq(Nat), NEW m \in 0 .. Len(g)
    PROVE  /\ SubSeq(g, 1, m) \in Seq(Nat) /\ Len(SubSeq(g, 1, m)) = m
           /\ \A i \in 1 .. m : SubSeq(g, 1, m)[i] = g[i]
OBVIOUS

\* Characters and the padding after them.
LEMMA Padded ==
    ASSUME NEW g \in Octets, Len(g) = 4, NEW m \in 2 .. 3,
           NEW v \in Octets, Len(v) = 4 - m, \A i \in 1 .. 4 - m : v[i] = Pad,
           NEW e, e = SubSeq(g, 1, m) \o v
    PROVE  /\ e \in Octets /\ Len(e) = 4
           /\ \A j \in 1 .. 4 : e[j] = IF j <= m THEN g[j] ELSE Pad
<1>1. PICK u : u = SubSeq(g, 1, m)
  BY Zenon
<1>2. u \in Octets /\ Len(u) = m /\ \A i \in 1 .. m : u[i] = g[i]
  <2>1. m \in 0 .. Len(g)
    OBVIOUS
  <2> QED
    BY <1>1, <2>1, BytesUpTo, Zenon DEF Octets
<1>3. /\ e \in Octets /\ Len(e) = Len(u) + Len(v)
      /\ \A i \in 1 .. Len(u) : e[i] = u[i]
      /\ \A i \in 1 .. Len(v) : e[Len(u) + i] = v[i]
  <2>1. e = u \o v
    BY <1>1, Zenon
  <2>2. /\ u \o v \in Octets /\ Len(u \o v) = Len(u) + Len(v)
        /\ \A i \in 1 .. Len(u) : (u \o v)[i] = u[i]
        /\ \A i \in 1 .. Len(v) : (u \o v)[Len(u) + i] = v[i]
    BY <1>2, OneThenOther, Zenon DEF Octets
  <2> QED
    BY <2>1, <2>2, Zenon
<1>4. Len(e) = 4
  BY <1>2, <1>3
<1>5. ASSUME NEW j \in 1 .. 4 PROVE e[j] = IF j <= m THEN g[j] ELSE Pad
  <2>1. CASE j <= m
    BY <1>2, <1>3, <2>1, SMTT(60)
  <2>2. CASE ~(j <= m)
    <3>1. PICK i : i = j - m
      OBVIOUS
    <3>2. i \in 1 .. 4 - m /\ m + i = j
      BY <2>2, <3>1
    <3>3. e[m + i] = v[i] /\ v[i] = Pad
      BY <1>2, <1>3, <3>2
    <3> QED
      BY <2>2, <3>2, <3>3, Zenon
  <2> QED
    BY <2>1, <2>2
<1> QED
  BY <1>3, <1>4, <1>5

\* The bytes left over, and the last characters made of them.
LEMMA LastOne ==
    ASSUME NEW s \in Seq(0 .. 255), NEW d \in Nat, Len(s) = 3 * d + 1
    PROVE  LastLaid(last_block(SubSeq(s, 3 * d + 1, Len(s))), s, d, 1)
<1>1. PICK rest : rest = SubSeq(s, 3 * d + 1, Len(s))
  BY Zenon
<1>2. Len(rest) = 1 /\ rest[1] = s[3 * d + 1]
  <2>1. PICK m \in Nat : m = 3 * d + 1 /\ m >= 1 /\ m <= Len(s) + 1
    OBVIOUS
  <2>2. /\ Len(rest) = Len(s) + 1 - m
        /\ \A i \in 1 .. Len(s) + 1 - m : rest[i] = s[m + i - 1]
    <3>1. rest = SubSeq(s, m, Len(s))
      BY <1>1, <2>1
    <3> QED
      BY <2>1, <3>1, BytesFrom, ZenonT(60)
  <2>3. Len(s) + 1 - m = 1 /\ m + 1 - 1 = m /\ 1 \in 1 .. 1
    BY <2>1
  <2> QED
    BY <2>1, <2>2, <2>3
<1>3. PICK g : g = Group(s, d + 1)
  OBVIOUS
<1>4. g \in Octets /\ Len(g) = 4
  BY <1>3, GroupTyped
<1>5. block_of(rest[1], 0, 0) = g
  <2>1. /\ ByteAt(s, 3 * (d + 1) - 2) = s[3 * d + 1] /\ ByteAt(s, 3 * (d + 1) - 1) = 0
        /\ ByteAt(s, 3 * (d + 1)) = 0
    BY DEF ByteAt
  <2> QED
    BY <1>2, <1>3, <2>1 DEF Group
<1>6. last_block(rest) = SubSeq(g, 1, 2) \o <<Pad, Pad>>
  BY <1>2, <1>5 DEF last_block
<1>7. PICK e, v : v = <<Pad, Pad>> /\ e = SubSeq(g, 1, 2) \o v
  BY Zenon
<1>8. v \in Octets /\ Len(v) = 4 - 2 /\ \A i \in 1 .. 4 - 2 : v[i] = Pad
  BY <1>7 DEF Octets, Pad
<1>9. e \in Octets /\ Len(e) = 4 /\ \A j \in 1 .. 4 : e[j] = IF j <= 1 + 1 THEN g[j] ELSE Pad
  <2>1. 2 \in 2 .. 3
    OBVIOUS
  <2>2. e \in Octets /\ Len(e) = 4 /\ \A j \in 1 .. 4 : e[j] = IF j <= 2 THEN g[j] ELSE Pad
    BY <1>4, <1>7, <1>8, <2>1, Padded, Zenon
  <2> QED
    BY <2>2
<1>10. LastLaid(e, s, d, 1)
  BY <1>3, <1>9, Zenon DEF LastLaid
<1> QED
  BY <1>1, <1>6, <1>7, <1>10, Zenon

\* The same with two bytes left over.
LEMMA LastTwo ==
    ASSUME NEW s \in Seq(0 .. 255), NEW d \in Nat, Len(s) = 3 * d + 2
    PROVE  LastLaid(last_block(SubSeq(s, 3 * d + 1, Len(s))), s, d, 2)
<1>1. PICK rest : rest = SubSeq(s, 3 * d + 1, Len(s))
  BY Zenon
<1>2. Len(rest) = 2 /\ rest[1] = s[3 * d + 1] /\ rest[2] = s[3 * d + 2]
  <2>1. PICK m \in Nat : m = 3 * d + 1 /\ m >= 1 /\ m <= Len(s) + 1
    OBVIOUS
  <2>2. /\ Len(rest) = Len(s) + 1 - m
        /\ \A i \in 1 .. Len(s) + 1 - m : rest[i] = s[m + i - 1]
    <3>1. rest = SubSeq(s, m, Len(s))
      BY <1>1, <2>1
    <3> QED
      BY <2>1, <3>1, BytesFrom
  <2>3. /\ Len(s) + 1 - m = 2 /\ m + 1 - 1 = m /\ m + 2 - 1 = 3 * d + 2
        /\ 1 \in 1 .. 2 /\ 2 \in 1 .. 2
    BY <2>1
  <2> QED
    BY <2>1, <2>2, <2>3
<1>3. PICK g : g = Group(s, d + 1)
  OBVIOUS
<1>4. g \in Octets /\ Len(g) = 4
  BY <1>3, GroupTyped, SMTT(60)
<1>5. block_of(rest[1], rest[2], 0) = g
  <2>1. /\ ByteAt(s, 3 * (d + 1) - 2) = s[3 * d + 1]
        /\ ByteAt(s, 3 * (d + 1) - 1) = s[3 * d + 2]
        /\ ByteAt(s, 3 * (d + 1)) = 0
    BY DEF ByteAt
  <2> QED
    BY <1>2, <1>3, <2>1 DEF Group
<1>6. last_block(rest) = SubSeq(g, 1, 3) \o <<Pad>>
  BY <1>2, <1>5 DEF last_block
<1>7. PICK e, v : v = <<Pad>> /\ e = SubSeq(g, 1, 3) \o v
  BY Zenon
<1>8. v \in Octets /\ Len(v) = 4 - 3 /\ \A i \in 1 .. 4 - 3 : v[i] = Pad
  BY <1>7 DEF Octets, Pad
<1>9. e \in Octets /\ Len(e) = 4 /\ \A j \in 1 .. 4 : e[j] = IF j <= 2 + 1 THEN g[j] ELSE Pad
  <2>1. 3 \in 2 .. 3
    OBVIOUS
  <2>2. e \in Octets /\ Len(e) = 4 /\ \A j \in 1 .. 4 : e[j] = IF j <= 3 THEN g[j] ELSE Pad
    BY <1>4, <1>7, <1>8, <2>1, Padded, ZenonT(60)
  <2> QED
    BY <2>2
<1>10. LastLaid(e, s, d, 2)
  BY <1>3, <1>9, Zenon DEF LastLaid
<1> QED
  BY <1>1, <1>6, <1>7, <1>10, Zenon

\* base64_encode writes the text.
LEMMA EncodeWrites ==
    ASSUME NEW s \in Seq(0 .. 255)
    PROVE  TextOf(base64_encode(s), s)
<1>1. PICK d \in Nat, r \in 0 .. 2 : d = Len(s) \div 3 /\ Len(s) = 3 * d + r
  <2>1. PICK n \in Nat : n = Len(s)
    OBVIOUS
  <2>2. n \div 3 \in Nat /\ n % 3 \in 0 .. 2 /\ n = 3 * (n \div 3) + (n % 3)
    BY <2>1
  <2> QED
    BY <2>1, <2>2, SMTT(60)
<1>2. PICK f : f = Flatten([k \in 1 .. d |-> block_of(s[3 * k - 2], s[3 * k - 1], s[3 * k])])
  BY Zenon
<1>3. GroupsLaid(f, s, d)
  <2>1. 3 * d <= Len(s)
    BY <1>1
  <2> QED
    BY <1>2, <2>1, WholeGroups, Zenon
<1>4. PICK rest, e : rest = SubSeq(s, 3 * d + 1, Len(s)) /\ e = last_block(rest)
  BY Zenon
<1>5. base64_encode(s) = f \o e
  BY <1>1, <1>2, <1>4, Zenon DEF base64_encode
<1>6. CASE r = 0
  <2>1. Len(rest) = 0
    <3>1. PICK m \in Nat : m = 3 * d + 1 /\ m >= 1 /\ m <= Len(s) + 1 /\ Len(s) + 1 - m = 0
      BY <1>1, <1>6, SMTT(60)
    <3> QED
      BY <1>4, <3>1, BytesFrom, Zenon
  <2>2. e = <<>>
    BY <1>4, <2>1, SMTT(60) DEF last_block
  <2>3. f \o e = f
    BY <1>3, <2>2 DEF GroupsLaid, Octets
  <2>4. Len(s) = 3 * d
    BY <1>1, <1>6
  <2> QED
    BY <1>3, <1>5, <2>3, <2>4, WholeText
<1>7. CASE r = 1
  <2>1. Len(s) = 3 * d + 1 /\ 1 \in 1 .. 2
    BY <1>1, <1>7
  <2>2. LastLaid(e, s, d, 1)
    BY <1>4, <2>1, LastOne, Zenon
  <2>3. TextOf(f \o e, s)
    BY <1>3, <2>1, <2>2, PartText, ZenonT(60)
  <2> QED
    BY <1>5, <2>3, Zenon
<1>8. CASE r = 2
  <2>1. Len(s) = 3 * d + 2 /\ 2 \in 1 .. 2
    BY <1>1, <1>8
  <2>2. LastLaid(e, s, d, 2)
    BY <1>4, <2>1, LastTwo, Zenon
  <2>3. TextOf(f \o e, s)
    BY <1>3, <2>1, <2>2, PartText, Zenon
  <2> QED
    BY <1>5, <2>3, Zenon
<1> QED
  BY <1>6, <1>7, <1>8, SMTT(60)

\* A place in the text is a place in one of its groups.
LEMMA PlaceInGroup ==
    ASSUME NEW B \in Nat, NEW i \in 1 .. 4 * B
    PROVE  \E k \in 1 .. B, j \in 1 .. 4 : i = 4 * (k - 1) + j
<1>1. PICK q \in Nat, r \in 0 .. 3 : i - 1 = 4 * q + r
  <2>1. i - 1 \in Nat
    OBVIOUS
  <2>2. /\ (i - 1) \div 4 \in Nat /\ (i - 1) % 4 \in 0 .. 3
        /\ i - 1 = 4 * ((i - 1) \div 4) + ((i - 1) % 4)
    BY <2>1
  <2> QED
    BY <2>2
<1>2. q + 1 \in 1 .. B /\ r + 1 \in 1 .. 4 /\ i = 4 * ((q + 1) - 1) + (r + 1)
  BY <1>1
<1> QED
  BY <1>2, Zenon

\* The text of s, of n bytes, with names for its numbers of groups and of bytes
\* missing.
Laid(t, s, n, B, M) ==
    /\ n \in Nat /\ B \in Nat /\ M \in 0 .. 2 /\ 3 * B = n + M
    /\ t \in Octets /\ Len(t) = 4 * B
    /\ \A k \in 1 .. B, j \in 1 .. 4 :
          t[4 * (k - 1) + j] = IF 4 * (k - 1) + j <= 4 * B - M
                               THEN Group(s, k)[j] ELSE Pad

\* The text is laid out in this way.
LEMMA TextLaid ==
    ASSUME NEW s \in Seq(0 .. 255), NEW t, TextOf(t, s)
    PROVE  Laid(t, s, Len(s), Groups(Len(s)), Missing(Len(s)))
<1>1. PICK n, B, M : n = Len(s) /\ B = Groups(Len(s)) /\ M = Missing(Len(s))
  OBVIOUS
<1>2. n \in Nat
  BY <1>1
<1>3. B = Groups(n) /\ M = Missing(n)
  BY <1>1, Zenon
<1>4. B \in Nat /\ M \in 0 .. 2 /\ 3 * B = n + M
  BY <1>2, <1>3, GroupsCount
<1>5. t \in Octets /\ Len(t) = 4 * B
  BY <1>1, Zenon DEF TextOf
<1>6. \A k \in 1 .. B, j \in 1 .. 4 :
          t[4 * (k - 1) + j] = IF 4 * (k - 1) + j <= Len(t) - M THEN Group(s, k)[j] ELSE Pad
  BY <1>1, Zenon DEF TextOf
<1>7. Laid(t, s, n, B, M)
  BY <1>2, <1>4, <1>5, <1>6, Zenon DEF Laid
<1> QED
  BY <1>1, <1>7, Zenon

\* No character of the alphabet is the pad character.
LEMMA NotPad == \A x \in 0 .. 63 : x # Pad
BY DEF Pad

\* The pad characters are the last M of 4 * B.
PadsLast(t, B, M) == \A i \in 1 .. 4 * B : t[i] = Pad <=> i > 4 * B - M

\* The pad characters are the last ones of the text.
LEMMA PadPlaces ==
    ASSUME NEW s \in Seq(0 .. 255), NEW t, NEW n, NEW B, NEW M, Laid(t, s, n, B, M)
    PROVE  PadsLast(t, B, M)
<1> USE DEF PadsLast
<1>0. /\ B \in Nat /\ M \in 0 .. 2
      /\ \A k \in 1 .. B, j \in 1 .. 4 :
            t[4 * (k - 1) + j] = IF 4 * (k - 1) + j <= 4 * B - M
                                 THEN Group(s, k)[j] ELSE Pad
  BY DEF Laid
<1>1. ASSUME NEW i \in 1 .. 4 * B PROVE t[i] = Pad <=> i > 4 * B - M
  <2>1. PICK k \in 1 .. B, j \in 1 .. 4 : i = 4 * (k - 1) + j
    BY <1>0, PlaceInGroup, Zenon
  <2>2. t[i] = IF i <= 4 * B - M THEN Group(s, k)[j] ELSE Pad
    BY <1>0, <2>1, Zenon
  <2>3. k \in Nat /\ k >= 1
    BY <1>0
  <2>4. Group(s, k)[j] \in 0 .. 63
    BY <2>3, GroupTyped, Zenon
  <2>5. Group(s, k)[j] # Pad
    BY <2>4, NotPad, Zenon
  <2>6. i > 4 * B - M <=> ~(i <= 4 * B - M)
    BY <1>0
  <2> QED
    BY <2>2, <2>5, <2>6, ZenonT(60)
<1> QED
  BY <1>1, SMTT(60)

\* The values of the characters of a group, padding included.
LEMMA ValuesOfGroup ==
    ASSUME NEW s \in Seq(0 .. 255), NEW t, TextOf(t, s), NEW k \in 1 .. Groups(Len(s)),
           NEW j \in 1 .. 4
    PROVE  value(t[4 * (k - 1) + j]) = Group(s, k)[j]
<1>1. PICK n, B, M : n = Len(s) /\ B = Groups(Len(s)) /\ Laid(t, s, n, B, M)
  BY TextLaid, SMTT(60)
<1>2. n \in Nat /\ B \in Nat /\ M \in 0 .. 2 /\ 3 * B = n + M
  BY <1>1 DEF Laid
<1>3. k \in 1 .. B
  BY <1>1, Zenon
<1>4. t[4 * (k - 1) + j] = IF 4 * (k - 1) + j <= 4 * B - M THEN Group(s, k)[j] ELSE Pad
  BY <1>1, <1>3, Zenon DEF Laid
<1>5. k \in Nat /\ k >= 1
  BY <1>2, <1>3
<1>6. /\ Group(s, k)[j] \in 0 .. 63
      /\ 3 * k > n => Group(s, k)[4] = 0
      /\ 3 * k - 1 > n => Group(s, k)[3] = 0
  BY <1>1, <1>5, GroupTyped, Zenon
<1>7. CASE 4 * (k - 1) + j <= 4 * B - M
  <2>1. Group(s, k)[j] # Pad
    BY <1>6, NotPad, Zenon
  <2> QED
    BY <1>4, <1>7, <2>1, Zenon DEF value
<1>8. CASE ~(4 * (k - 1) + j <= 4 * B - M)
  <2>1. k = B /\ j > 4 - M
    BY <1>2, <1>3, <1>8, SMTT(60)
  <2>2. 3 * k > n /\ (j = 4 \/ (j = 3 /\ 3 * k - 1 > n))
    BY <1>2, <2>1
  <2>3. Group(s, k)[j] = 0
    BY <1>6, <2>2, Zenon
  <2> QED
    BY <1>4, <1>8, <2>3, Zenon DEF value
<1> QED
  BY <1>7, <1>8

\* The bytes base64_decode makes of four characters.
ThreeOf(x, y, z, v) ==
    <<(x * 4 + (y \div 16)) % 256, (y * 16 + (z \div 4)) % 256, (z * 64 + v) % 256>>

\* They are the bytes a, b and c.
ThreeAre(x, y, z, v, a, b, c) == ThreeOf(x, y, z, v) = <<a, b, c>>

\* The four characters for three bytes.
FourOf(a, b, c, x, y, z, v) == block_of(a, b, c) = <<x, y, z, v>>

\* Three bytes come back from the four characters made of them.
LEMMA BytesBack ==
    ASSUME NEW a \in 0 .. 255, NEW b \in 0 .. 255, NEW c \in 0 .. 255,
           NEW x, NEW y, NEW z, NEW v, FourOf(a, b, c, x, y, z, v)
    PROVE  ThreeAre(x, y, z, v, a, b, c)
<1>1. /\ x = a \div 4 /\ y = (a % 4) * 16 + (b \div 16)
      /\ z = (b % 16) * 4 + (c \div 64) /\ v = c % 64
  BY DEF block_of, FourOf
<1>2. y \div 16 = a % 4
  BY <1>1
<1>3. z \div 4 = b % 16
  BY <1>1, SMTT(60)
<1>4. x * 4 + (y \div 16) = a
  BY <1>1, <1>2, SMTT(60)
<1>5. y * 16 + (z \div 4) = (a % 4) * 256 + b
  BY <1>1, <1>3, SMTT(60)
<1>6. z * 64 + v = (b % 16) * 256 + c
  BY <1>1
<1>7. ((a % 4) * 256 + b) % 256 = b
  OBVIOUS
<1>8. ((b % 16) * 256 + c) % 256 = c
  OBVIOUS
<1>9. /\ (x * 4 + (y \div 16)) % 256 = a /\ (y * 16 + (z \div 4)) % 256 = b
      /\ (z * 64 + v) % 256 = c
  BY <1>4, <1>5, <1>6, <1>7, <1>8, SMTT(60)
<1> QED
  BY <1>9, ZenonT(60) DEF ThreeOf, ThreeAre

\* The bytes of a group come back from its characters.
LEMMA GroupBack ==
    ASSUME NEW s \in Seq(0 .. 255), NEW t, TextOf(t, s), NEW k \in 1 .. Groups(Len(s))
    PROVE  bytes_at(t, 4 * (k - 1))
             = <<ByteAt(s, 3 * k - 2), ByteAt(s, 3 * k - 1), ByteAt(s, 3 * k)>>
<1>1. PICK a, b, c : a = ByteAt(s, 3 * k - 2) /\ b = ByteAt(s, 3 * k - 1) /\ c = ByteAt(s, 3 * k)
  OBVIOUS
<1>2. k \in Nat /\ k >= 1
  BY GroupsCount, SMTT(60)
<1>3. a \in 0 .. 255 /\ b \in 0 .. 255 /\ c \in 0 .. 255
  BY <1>1, <1>2, ByteTyped, SMTT(60)
<1>4. PICK w : w = [i \in 1 .. 4 |-> value(t[4 * (k - 1) + i])]
  BY Zenon
<1>5. \A i \in 1 .. 4 : w[i] = Group(s, k)[i]
  <2>1. ASSUME NEW i \in 1 .. 4 PROVE w[i] = Group(s, k)[i]
    <3>1. w[i] = value(t[4 * (k - 1) + i])
      BY <1>4, Zenon
    <3>2. value(t[4 * (k - 1) + i]) = Group(s, k)[i]
      BY ValuesOfGroup, ZenonT(60)
    <3> QED
      BY <3>1, <3>2, Zenon
  <2> QED
    BY <2>1, Zenon
<1>6. Group(s, k) = block_of(a, b, c)
  BY <1>1 DEF Group
<1>7. PICK x, y, z, v : FourOf(a, b, c, x, y, z, v)
  BY DEF block_of, FourOf
<1>8. ThreeAre(x, y, z, v, a, b, c)
  BY <1>3, <1>7, BytesBack, ZenonT(60)
<1>9. bytes_at(t, 4 * (k - 1)) = ThreeOf(w[1], w[2], w[3], w[4])
  BY <1>4, SMTT(60) DEF bytes_at, ThreeOf
<1>10. w[1] = x /\ w[2] = y /\ w[3] = z /\ w[4] = v
  BY <1>5, <1>6, <1>7, SMTT(60) DEF FourOf
<1> QED
  BY <1>1, <1>8, <1>9, <1>10, Zenon DEF ThreeAre

\* The parts of base64_decode: the last block it looks at, the pad characters
\* up to there, and the bytes.
LastRead(t, blocks) ==
    LET padded == {k \in 1 .. blocks : \E i \in 1 .. 4 : t[4 * (k - 1) + i] = Pad}
    IN  IF padded = {} THEN blocks ELSE CHOOSE k \in padded : \A j \in padded : k <= j

PadsRead(t, last) ==
    SumOf([i \in 1 .. 4 |-> IF t[4 * (last - 1) + i] = Pad THEN 1 ELSE 0])

BytesRead(t, last) == Flatten([k \in 1 .. last |-> bytes_at(t, 4 * (k - 1))])

Decoded(t, out, pad) ==
    IF Len(t) = 0 \/ Len(t) % 4 # 0 \/ pad > 2 THEN Failure
    ELSE SubSeq(out, 1, Len(out) - pad)

\* The last block base64_decode looks at is the last one of the text.
LEMMA LastBlock ==
    ASSUME NEW t, NEW B \in Nat, B >= 1, NEW M \in 0 .. 2, PadsLast(t, B, M)
    PROVE  LastRead(t, B) = B
<1>0. PICK padded : padded = {k \in 1 .. B : \E i \in 1 .. 4 : t[4 * (k - 1) + i] = Pad}
  BY Zenon
<1>1. ASSUME NEW k \in 1 .. B, NEW i \in 1 .. 4
      PROVE  t[4 * (k - 1) + i] = Pad <=> 4 * (k - 1) + i > 4 * B - M
  <2>1. 4 * (k - 1) + i \in 1 .. 4 * B
    OBVIOUS
  <2> QED
    BY <2>1, Zenon DEF PadsLast
<1>2. \A k \in padded : k = B
  <2>1. ASSUME NEW k \in padded PROVE k = B
    <3>1. PICK i \in 1 .. 4 : t[4 * (k - 1) + i] = Pad
      BY <1>0, Zenon
    <3>2. k \in 1 .. B
      BY <1>0, Zenon
    <3>3. 4 * (k - 1) + i > 4 * B - M
      BY <1>1, <3>1, <3>2, Zenon
    <3> QED
      BY <3>2, <3>3
  <2> QED
    BY <2>1
<1>3. CASE padded = {}
  BY <1>0, <1>3, Zenon DEF LastRead
<1>4. CASE padded # {}
  <2>1. B \in padded /\ \A k \in padded : k = B
    BY <1>2, <1>4, Zenon
  <2>2. B <= B
    OBVIOUS
  <2>3. \E k \in padded : \A j \in padded : k <= j
    BY <2>1, <2>2, Zenon
  <2>4. (CHOOSE k \in padded : \A j \in padded : k <= j) \in padded
    BY <2>3, Zenon
  <2>5. (CHOOSE k \in padded : \A j \in padded : k <= j) = B
    BY <2>1, <2>4, Zenon
  <2> QED
    BY <1>0, <1>4, <2>5, Zenon DEF LastRead
<1> QED
  BY <1>3, <1>4

\* base64_decode counts the bytes missing.
LEMMA PadCount ==
    ASSUME NEW t, NEW B \in Nat, B >= 1, NEW M \in 0 .. 2, PadsLast(t, B, M)
    PROVE  PadsRead(t, B) = M
<1>1. PICK q : q = [i \in 1 .. 4 |-> IF t[4 * (B - 1) + i] = Pad THEN 1 ELSE 0]
  BY Zenon
<1>2. q \in Octets /\ Len(q) = 4
  BY <1>1 DEF Octets
<1>3. \A i \in 1 .. 4 : q[i] = IF i > 4 - M THEN 1 ELSE 0
  <2>1. ASSUME NEW i \in 1 .. 4
        PROVE  q[i] = IF i > 4 - M THEN 1 ELSE 0
    <3>1. 4 * (B - 1) + i \in 1 .. 4 * B
      OBVIOUS
    <3>2. t[4 * (B - 1) + i] = Pad <=> 4 * (B - 1) + i > 4 * B - M
      BY <3>1, Zenon DEF PadsLast
    <3>3. 4 * (B - 1) + i > 4 * B - M <=> i > 4 - M
      OBVIOUS
    <3>4. q[i] = IF t[4 * (B - 1) + i] = Pad THEN 1 ELSE 0
      BY <1>1, Zenon
    <3> QED
      BY <3>2, <3>3, <3>4, Zenon
  <2> QED
    BY <2>1, Zenon
<1>4. PICK f \in [0 .. Len(q) -> Nat] :
              /\ f[0] = 0
              /\ \A n \in 1 .. Len(q) : f[n] = f[n - 1] + q[n]
              /\ SumOf(q) = f[Len(q)]
  BY <1>2, SumUnfolds, Zenon
<1>5. SumOf(q) = q[1] + q[2] + q[3] + q[4]
  <2>1. \A n \in 1 .. 4 : f[n] = f[n - 1] + q[n]
    BY <1>2, <1>4, Zenon
  <2>2. f[1] = f[0] + q[1] /\ f[2] = f[1] + q[2] /\ f[3] = f[2] + q[3] /\ f[4] = f[3] + q[4]
    BY <2>1
  <2>3. q[1] \in Nat /\ q[2] \in Nat /\ q[3] \in Nat /\ q[4] \in Nat
    BY <1>3
  <2> QED
    BY <1>2, <1>4, <2>2, <2>3, SMTT(60)
<1>6. q[1] + q[2] + q[3] + q[4] = M
  BY <1>3
<1> QED
  BY <1>1, <1>5, <1>6, Zenon DEF PadsRead

\* A place in the payload is a place in one of its groups.
LEMMA ByteInGroup ==
    ASSUME NEW B \in Nat, NEW i \in 1 .. 3 * B
    PROVE  \E k \in 1 .. B, j \in 1 .. 3 : i = 3 * (k - 1) + j
<1>1. PICK q \in Nat, r \in 0 .. 2 : i - 1 = 3 * q + r
  <2>1. i - 1 \in Nat
    OBVIOUS
  <2>2. /\ (i - 1) \div 3 \in Nat /\ (i - 1) % 3 \in 0 .. 2
        /\ i - 1 = 3 * ((i - 1) \div 3) + ((i - 1) % 3)
    BY <2>1
  <2> QED
    BY <2>2
<1>2. q + 1 \in 1 .. B /\ r + 1 \in 1 .. 3 /\ i = 3 * ((q + 1) - 1) + (r + 1)
  BY <1>1
<1> QED
  BY <1>2, Zenon

\* The bytes of the groups one after the other are the payload and the zeros
\* after it.
LEMMA BytesLaidOut ==
    ASSUME NEW s \in Seq(0 .. 255), NEW B \in Nat, NEW p,
           p = [k \in 1 .. B |-> <<ByteAt(s, 3 * k - 2), ByteAt(s, 3 * k - 1), ByteAt(s, 3 * k)>>]
    PROVE  /\ Flatten(p) \in Octets /\ Len(Flatten(p)) = 3 * B
           /\ \A i \in 1 .. 3 * B : Flatten(p)[i] = ByteAt(s, i)
<1>1. ASSUME NEW k \in 1 .. B
      PROVE  /\ p[k] \in Octets /\ Len(p[k]) = 3 /\ p[k][1] = ByteAt(s, 3 * k - 2)
             /\ p[k][2] = ByteAt(s, 3 * k - 1) /\ p[k][3] = ByteAt(s, 3 * k)
  <2>1. PICK a, b, c : /\ a = ByteAt(s, 3 * k - 2) /\ b = ByteAt(s, 3 * k - 1)
                       /\ c = ByteAt(s, 3 * k)
    OBVIOUS
  <2>2. a \in Nat /\ b \in Nat /\ c \in Nat
    <3>1. /\ 3 * k - 2 \in Nat /\ 3 * k - 2 >= 1 /\ 3 * k - 1 \in Nat /\ 3 * k - 1 >= 1
          /\ 3 * k \in Nat /\ 3 * k >= 1
      OBVIOUS
    <3>2. a \in 0 .. 255 /\ b \in 0 .. 255 /\ c \in 0 .. 255
      BY <2>1, <3>1, ByteTyped, Zenon
    <3>3. \A x \in 0 .. 255 : x \in Nat
      OBVIOUS
    <3> QED
      BY <3>2, <3>3, Zenon
  <2>3. p[k] = <<a, b, c>>
    BY <2>1, Zenon
  <2>4. <<a, b, c>> \in Octets /\ Len(<<a, b, c>>) = 3
    BY <2>2 DEF Octets
  <2>5. <<a, b, c>>[1] = a /\ <<a, b, c>>[2] = b /\ <<a, b, c>>[3] = c
    OBVIOUS
  <2> QED
    BY <2>1, <2>3, <2>4, <2>5, Zenon
<1>2. p \in Seq(Octets) /\ Len(p) = B
  <2>1. DOMAIN p = 1 .. B /\ p = [k \in 1 .. B |-> p[k]]
    OBVIOUS
  <2>2. p \in [1 .. B -> Octets]
    BY <1>1, <2>1
  <2> QED
    BY <2>2
<1>3. PICK f : f = Flatten(p)
  BY Zenon
<1>4. f \in Octets /\ Blocks(f, p, 3)
  <2>1. \A k \in 1 .. Len(p) : Len(p[k]) = 3
    BY <1>1, <1>2
  <2> QED
    BY <1>2, <1>3, <2>1, FlattenBlocks, Zenon
<1>5. Len(f) = 3 * B /\ \A k \in 1 .. B, j \in 1 .. 3 : f[3 * (k - 1) + j] = p[k][j]
  BY <1>2, <1>4, Zenon DEF Blocks
<1>6. ASSUME NEW i \in 1 .. 3 * B PROVE f[i] = ByteAt(s, i)
  <2>1. PICK k \in 1 .. B, j \in 1 .. 3 : i = 3 * (k - 1) + j
    BY ByteInGroup, Zenon
  <2>2. f[i] = p[k][j]
    BY <1>5, <2>1, ZenonT(60)
  <2>3. CASE j = 1
    <3>1. i = 3 * k - 2
      BY <2>1, <2>3, SMTT(60)
    <3> QED
      BY <1>1, <2>2, <2>3, <3>1
  <2>4. CASE j = 2
    <3>1. i = 3 * k - 1
      BY <2>1, <2>4, SMTT(60)
    <3> QED
      BY <1>1, <2>2, <2>4, <3>1, SMTT(60)
  <2>5. CASE j = 3
    <3>1. i = 3 * k
      BY <2>1, <2>5
    <3> QED
      BY <1>1, <2>2, <2>5, <3>1, SMTT(60)
  <2> QED
    BY <2>3, <2>4, <2>5, SMTT(60)
<1> QED
  BY <1>3, <1>4, <1>5, <1>6, Zenon

\* base64_decode in its parts.
LEMMA DecodeParts ==
    ASSUME NEW txt
    PROVE  base64_decode(txt)
             = Decoded(Known(txt),
                       BytesRead(Known(txt), LastRead(Known(txt), Len(Known(txt)) \div 4)),
                       PadsRead(Known(txt), LastRead(Known(txt), Len(Known(txt)) \div 4)))
BY Zenon DEF base64_decode, LastRead, PadsRead, BytesRead, Decoded

\* base64_decode gives back what base64_encode was given.
LEMMA DecodeText ==
    ASSUME NEW s \in Seq(0 .. 255), s # <<>>, NEW txt, TextOf(Known(txt), s)
    PROVE  base64_decode(txt) = s
<1>1. PICK t : t = Known(txt)
  OBVIOUS
<1>2. PICK n, B, M : n = Len(s) /\ B = Groups(Len(s)) /\ Laid(t, s, n, B, M)
  BY <1>1, TextLaid, SMTT(60)
<1>3. n \in Nat /\ B \in Nat /\ M \in 0 .. 2 /\ 3 * B = n + M /\ Len(t) = 4 * B
  BY <1>2 DEF Laid
<1>4. n # 0 /\ B >= 1
  <2>1. Len(s) # 0
    <3>1. \A q \in Seq(0 .. 255) : q # <<>> => Len(q) \in Nat \ {0}
      BY EmptySeq, Zenon
    <3>2. Len(s) \in Nat \ {0}
      BY <3>1, Zenon
    <3> QED
      BY <3>2
  <2>2. n # 0
    BY <1>2, <2>1, Zenon
  <2> QED
    BY <1>3, <2>2
<1>5. PadsLast(t, B, M)
  BY <1>2, PadPlaces, SMTT(60)
<1>7. LastRead(t, B) = B
  BY <1>3, <1>4, <1>5, LastBlock, SMTT(60)
<1>8. PadsRead(t, B) = M
  BY <1>3, <1>4, <1>5, PadCount, SMTT(60)
<1>9. PICK p : p = [k \in 1 .. B |-> bytes_at(t, 4 * (k - 1))]
  BY Zenon
<1>10. p = [k \in 1 .. B |-> <<ByteAt(s, 3 * k - 2), ByteAt(s, 3 * k - 1), ByteAt(s, 3 * k)>>]
  <2>1. \A k \in 1 .. B : bytes_at(t, 4 * (k - 1))
                            = <<ByteAt(s, 3 * k - 2), ByteAt(s, 3 * k - 1), ByteAt(s, 3 * k)>>
    BY <1>1, <1>2, GroupBack, Zenon
  <2> QED
    BY <1>9, <2>1, Zenon
<1>11. PICK out : out = Flatten(p)
  OBVIOUS
<1>12. out \in Octets /\ Len(out) = 3 * B /\ \A i \in 1 .. 3 * B : out[i] = ByteAt(s, i)
  BY <1>3, <1>10, <1>11, BytesLaidOut, ZenonT(60)
<1>13. SubSeq(out, 1, Len(out) - M) = s
  <2>1. Len(out) - M = n /\ n \in 0 .. Len(out)
    BY <1>3, <1>12, SMTT(60)
  <2>2. PICK q : q = SubSeq(out, 1, n)
    BY Zenon
  <2>3. q \in Seq(Nat) /\ Len(q) = n /\ \A i \in 1 .. n : q[i] = out[i]
    BY <1>12, <2>1, <2>2, BytesUpTo, Zenon DEF Octets
  <2>4. \A i \in 1 .. n : i \in 1 .. 3 * B /\ i <= Len(s)
    BY <1>2, <1>3
  <2>5. \A i \in 1 .. n : q[i] = s[i]
    BY <1>12, <2>3, <2>4, Zenon DEF ByteAt
  <2>6. s \in Seq(Nat)
    <3>1. 0 .. 255 \subseteq Nat
      OBVIOUS
    <3> QED
      BY <3>1, BytesAreNumbers, Zenon DEF Octets
  <2>7. q = s
    BY <1>2, <2>3, <2>5, <2>6, SeqEqual, SMTT(60)
  <2> QED
    BY <2>1, <2>2, <2>7
<1>14. Len(t) \div 4 = B /\ ~(Len(t) = 0 \/ Len(t) % 4 # 0 \/ M > 2)
  BY <1>3, <1>4
<1>15. LastRead(t, Len(t) \div 4) = B
  BY <1>7, <1>14, Zenon
<1>16. BytesRead(t, B) = out
  BY <1>9, <1>11, Zenon DEF BytesRead
<1>17. base64_decode(txt) = Decoded(t, out, M)
  BY <1>1, <1>8, <1>15, <1>16, DecodeParts, Zenon
<1> QED
  BY <1>13, <1>14, <1>17, Zenon DEF Decoded

\* Bit p of a group, each of its members written with the highest of its width
\* bits first.
BitIn(g, width, p) == (g[p \div width + 1] \div Power[width - (p % width)]) % 2

\* Bit p of four characters is bit k of character i, and bit p of three bytes is
\* bit l of byte j.
BitPlaces(p, i, k, j, l) ==
    /\ p \div 6 + 1 = i /\ 6 - (p % 6) = k
    /\ p \div 8 + 1 = j /\ 8 - (p % 8) = l

\* These bits are the same.
BitsAgree(g, h, i, k, j, l) == (g[i] \div Power[k]) % 2 = (h[j] \div Power[l]) % 2

SameBit(g, h, p) == BitIn(g, 6, p) = BitIn(h, 8, p)

\* A bit, when it is known where it is.
LEMMA BitAt ==
    ASSUME NEW g, NEW h, NEW p, NEW i, NEW k, NEW j, NEW l,
           BitPlaces(p, i, k, j, l), BitsAgree(g, h, i, k, j, l)
    PROVE  SameBit(g, h, p)
BY Zenon DEF SameBit, BitIn, BitPlaces, BitsAgree

\* The bits of three bytes and of the four characters made of them.
LEMMA BlockBits ==
    ASSUME NEW a \in 0 .. 255, NEW b \in 0 .. 255, NEW c \in 0 .. 255, NEW p \in 0 .. 23
    PROVE  SameBit(block_of(a, b, c), <<a, b, c>>, p)
<1>1. PICK g, h : g = block_of(a, b, c) /\ h = <<a, b, c>>
  BY ZenonT(60)
<1>2. /\ g[1] = a \div 4 /\ g[2] = (a % 4) * 16 + (b \div 16)
      /\ g[3] = (b % 16) * 4 + (c \div 64) /\ g[4] = c % 64
      /\ h[1] = a /\ h[2] = b /\ h[3] = c
  BY <1>1, SMTT(60) DEF block_of
<1>3. /\ Power[1] = 1 /\ Power[2] = 2 /\ Power[3] = 4 /\ Power[4] = 8
      /\ Power[5] = 16 /\ Power[6] = 32 /\ Power[7] = 64 /\ Power[8] = 128
  BY DEF Power
<1>4. CASE p = 0
  <2>1. BitPlaces(p, 1, 6, 1, 8)
    BY <1>4, SMTT(60) DEF BitPlaces
  <2>2. BitsAgree(g, h, 1, 6, 1, 8)
    BY <1>2, <1>3 DEF BitsAgree
  <2> QED
    BY <1>1, <2>1, <2>2, BitAt, Zenon
<1>5. CASE p = 1
  <2>1. BitPlaces(p, 1, 5, 1, 7)
    BY <1>5, SMTT(60) DEF BitPlaces
  <2>2. BitsAgree(g, h, 1, 5, 1, 7)
    BY <1>2, <1>3 DEF BitsAgree
  <2> QED
    BY <1>1, <2>1, <2>2, BitAt, Zenon
<1>6. CASE p = 2
  <2>1. BitPlaces(p, 1, 4, 1, 6)
    BY <1>6, SMTT(60) DEF BitPlaces
  <2>2. BitsAgree(g, h, 1, 4, 1, 6)
    BY <1>2, <1>3 DEF BitsAgree
  <2> QED
    BY <1>1, <2>1, <2>2, BitAt, Zenon
<1>7. CASE p = 3
  <2>1. BitPlaces(p, 1, 3, 1, 5)
    BY <1>7, SMTT(60) DEF BitPlaces
  <2>2. BitsAgree(g, h, 1, 3, 1, 5)
    BY <1>2, <1>3 DEF BitsAgree
  <2> QED
    BY <1>1, <2>1, <2>2, BitAt, Zenon
<1>8. CASE p = 4
  <2>1. BitPlaces(p, 1, 2, 1, 4)
    BY <1>8, SMTT(60) DEF BitPlaces
  <2>2. BitsAgree(g, h, 1, 2, 1, 4)
    BY <1>2, <1>3 DEF BitsAgree
  <2> QED
    BY <1>1, <2>1, <2>2, BitAt, Zenon
<1>9. CASE p = 5
  <2>1. BitPlaces(p, 1, 1, 1, 3)
    BY <1>9, SMTT(60) DEF BitPlaces
  <2>2. BitsAgree(g, h, 1, 1, 1, 3)
    BY <1>2, <1>3 DEF BitsAgree
  <2> QED
    BY <1>1, <2>1, <2>2, BitAt, Zenon
<1>10. CASE p = 6
  <2>1. BitPlaces(p, 2, 6, 1, 2)
    BY <1>10, SMTT(60) DEF BitPlaces
  <2>2. BitsAgree(g, h, 2, 6, 1, 2)
    BY <1>2, <1>3 DEF BitsAgree
  <2> QED
    BY <1>1, <2>1, <2>2, BitAt, Zenon
<1>11. CASE p = 7
  <2>1. BitPlaces(p, 2, 5, 1, 1)
    BY <1>11, SMTT(60) DEF BitPlaces
  <2>2. BitsAgree(g, h, 2, 5, 1, 1)
    BY <1>2, <1>3 DEF BitsAgree
  <2> QED
    BY <1>1, <2>1, <2>2, BitAt, Zenon
<1>12. CASE p = 8
  <2>1. BitPlaces(p, 2, 4, 2, 8)
    BY <1>12, SMTT(60) DEF BitPlaces
  <2>2. BitsAgree(g, h, 2, 4, 2, 8)
    BY <1>2, <1>3 DEF BitsAgree
  <2> QED
    BY <1>1, <2>1, <2>2, BitAt, ZenonT(60)
<1>13. CASE p = 9
  <2>1. BitPlaces(p, 2, 3, 2, 7)
    BY <1>13, SMTT(60) DEF BitPlaces
  <2>2. BitsAgree(g, h, 2, 3, 2, 7)
    BY <1>2, <1>3 DEF BitsAgree
  <2> QED
    BY <1>1, <2>1, <2>2, BitAt, Zenon
<1>14. CASE p = 10
  <2>1. BitPlaces(p, 2, 2, 2, 6)
    BY <1>14, SMTT(60) DEF BitPlaces
  <2>2. BitsAgree(g, h, 2, 2, 2, 6)
    BY <1>2, <1>3 DEF BitsAgree
  <2> QED
    BY <1>1, <2>1, <2>2, BitAt, Zenon
<1>15. CASE p = 11
  <2>1. BitPlaces(p, 2, 1, 2, 5)
    BY <1>15, SMTT(60) DEF BitPlaces
  <2>2. BitsAgree(g, h, 2, 1, 2, 5)
    BY <1>2, <1>3 DEF BitsAgree
  <2> QED
    BY <1>1, <2>1, <2>2, BitAt, ZenonT(60)
<1>16. CASE p = 12
  <2>1. BitPlaces(p, 3, 6, 2, 4)
    BY <1>16, SMTT(60) DEF BitPlaces
  <2>2. BitsAgree(g, h, 3, 6, 2, 4)
    BY <1>2, <1>3 DEF BitsAgree
  <2> QED
    BY <1>1, <2>1, <2>2, BitAt, Zenon
<1>17. CASE p = 13
  <2>1. BitPlaces(p, 3, 5, 2, 3)
    BY <1>17, SMTT(60) DEF BitPlaces
  <2>2. BitsAgree(g, h, 3, 5, 2, 3)
    BY <1>2, <1>3, SMTT(60) DEF BitsAgree
  <2> QED
    BY <1>1, <2>1, <2>2, BitAt, ZenonT(60)
<1>18. CASE p = 14
  <2>1. BitPlaces(p, 3, 4, 2, 2)
    BY <1>18, SMTT(60) DEF BitPlaces
  <2>2. BitsAgree(g, h, 3, 4, 2, 2)
    BY <1>2, <1>3, SMTT(60) DEF BitsAgree
  <2> QED
    BY <1>1, <2>1, <2>2, BitAt, Zenon
<1>19. CASE p = 15
  <2>1. BitPlaces(p, 3, 3, 2, 1)
    BY <1>19, SMTT(60) DEF BitPlaces
  <2>2. BitsAgree(g, h, 3, 3, 2, 1)
    BY <1>2, <1>3 DEF BitsAgree
  <2> QED
    BY <1>1, <2>1, <2>2, BitAt, Zenon
<1>20. CASE p = 16
  <2>1. BitPlaces(p, 3, 2, 3, 8)
    BY <1>20, SMTT(60) DEF BitPlaces
  <2>2. BitsAgree(g, h, 3, 2, 3, 8)
    BY <1>2, <1>3, SMTT(60) DEF BitsAgree
  <2> QED
    BY <1>1, <2>1, <2>2, BitAt, ZenonT(60)
<1>21. CASE p = 17
  <2>1. BitPlaces(p, 3, 1, 3, 7)
    BY <1>21, SMTT(60) DEF BitPlaces
  <2>2. BitsAgree(g, h, 3, 1, 3, 7)
    BY <1>2, <1>3 DEF BitsAgree
  <2> QED
    BY <1>1, <2>1, <2>2, BitAt, Zenon
<1>22. CASE p = 18
  <2>1. BitPlaces(p, 4, 6, 3, 6)
    BY <1>22, SMTT(60) DEF BitPlaces
  <2>2. BitsAgree(g, h, 4, 6, 3, 6)
    BY <1>2, <1>3 DEF BitsAgree
  <2> QED
    BY <1>1, <2>1, <2>2, BitAt, Zenon
<1>23. CASE p = 19
  <2>1. BitPlaces(p, 4, 5, 3, 5)
    BY <1>23, SMTT(60) DEF BitPlaces
  <2>2. BitsAgree(g, h, 4, 5, 3, 5)
    BY <1>2, <1>3, SMTT(60) DEF BitsAgree
  <2> QED
    BY <1>1, <2>1, <2>2, BitAt, Zenon
<1>24. CASE p = 20
  <2>1. BitPlaces(p, 4, 4, 3, 4)
    BY <1>24, SMTT(60) DEF BitPlaces
  <2>2. BitsAgree(g, h, 4, 4, 3, 4)
    BY <1>2, <1>3, SMTT(60) DEF BitsAgree
  <2> QED
    BY <1>1, <2>1, <2>2, BitAt, Zenon
<1>25. CASE p = 21
  <2>1. BitPlaces(p, 4, 3, 3, 3)
    BY <1>25, SMTT(60) DEF BitPlaces
  <2>2. BitsAgree(g, h, 4, 3, 3, 3)
    BY <1>2, <1>3 DEF BitsAgree
  <2> QED
    BY <1>1, <2>1, <2>2, BitAt, Zenon
<1>26. CASE p = 22
  <2>1. BitPlaces(p, 4, 2, 3, 2)
    BY <1>26, SMTT(60) DEF BitPlaces
  <2>2. BitsAgree(g, h, 4, 2, 3, 2)
    BY <1>2, <1>3 DEF BitsAgree
  <2> QED
    BY <1>1, <2>1, <2>2, BitAt, ZenonT(60)
<1>27. CASE p = 23
  <2>1. BitPlaces(p, 4, 1, 3, 1)
    BY <1>27, SMTT(60) DEF BitPlaces
  <2>2. BitsAgree(g, h, 4, 1, 3, 1)
    BY <1>2, <1>3, SMTT(60) DEF BitsAgree
  <2> QED
    BY <1>1, <2>1, <2>2, BitAt, Zenon
<1>28. \/ p = 0 \/ p = 1 \/ p = 2 \/ p = 3 \/ p = 4 \/ p = 5 \/ p = 6 \/ p = 7
      \/ p = 8 \/ p = 9 \/ p = 10 \/ p = 11 \/ p = 12 \/ p = 13 \/ p = 14 \/ p = 15
      \/ p = 16 \/ p = 17 \/ p = 18 \/ p = 19 \/ p = 20 \/ p = 21 \/ p = 22 \/ p = 23
  OBVIOUS
<1> QED
  BY <1>4, <1>5, <1>6, <1>7, <1>8, <1>9, <1>10, <1>11, <1>12, <1>13, <1>14, <1>15,
     <1>16, <1>17, <1>18, <1>19, <1>20, <1>21, <1>22, <1>23, <1>24, <1>25, <1>26, <1>27, <1>28, ZenonT(60)

\* The characters of txt one by one, those dtable does not know left out.
Kept(txt) == [i \in DOMAIN txt |-> IF txt[i] = Foreign THEN <<>> ELSE <<txt[i]>>]

\* The string of one character, or of none.
LEMMA CharKept ==
    ASSUME NEW x \in Nat
    PROVE  <<x>> \in Octets /\ <<>> \in Octets
BY DEF Octets

\* What is left of each character is a string.
LEMMA KeptTyped ==
    ASSUME NEW txt \in Octets
    PROVE  /\ Kept(txt) \in Seq(Octets) /\ Len(Kept(txt)) = Len(txt)
           /\ \A i \in 1 .. Len(txt) :
                 Kept(txt)[i] = IF txt[i] = Foreign THEN <<>> ELSE <<txt[i]>>
<1>1. DOMAIN txt = 1 .. Len(txt) /\ Len(txt) \in Nat
  BY DEF Octets
<1>2. PICK k : k = Kept(txt)
  OBVIOUS
<1>3. k = [i \in 1 .. Len(txt) |-> IF txt[i] = Foreign THEN <<>> ELSE <<txt[i]>>]
  BY <1>1, <1>2, Zenon DEF Kept
<1>4. \A i \in 1 .. Len(txt) : txt[i] \in Nat
  BY DEF Octets
<1>5. \A i \in 1 .. Len(txt) :
          (IF txt[i] = Foreign THEN <<>> ELSE <<txt[i]>>) \in Octets
  BY <1>4, CharKept, Zenon
<1>6. k \in [1 .. Len(txt) -> Octets]
  BY <1>3, <1>5, Zenon
<1>7. k \in Seq(Octets) /\ Len(k) = Len(txt)
  BY <1>1, <1>6
<1>8. \A i \in 1 .. Len(txt) : k[i] = IF txt[i] = Foreign THEN <<>> ELSE <<txt[i]>>
  BY <1>3, Zenon
<1> QED
  BY <1>2, <1>7, <1>8, Zenon

\* Two sequences of strings one after the other.
LEMMA PartsConcat ==
    ASSUME NEW S, NEW u \in Seq(S), NEW v \in Seq(S), NEW z, z = u \o v
    PROVE  /\ z \in Seq(S) /\ Len(z) = Len(u) + Len(v)
           /\ \A i \in 1 .. Len(u) : z[i] = u[i]
           /\ \A i \in 1 .. Len(v) : z[Len(u) + i] = v[i]
OBVIOUS

\* dtable knows characters one by one.
LEMMA KnownConcat ==
    ASSUME NEW a \in Octets, NEW b \in Octets
    PROVE  /\ a \o b \in Octets /\ Known(a) \in Octets /\ Known(b) \in Octets
           /\ Known(a \o b) = Known(a) \o Known(b)
<1>1. PICK q : q = a \o b
  BY Zenon
<1>2. /\ q \in Octets /\ Len(q) = Len(a) + Len(b)
      /\ \A i \in 1 .. Len(a) : q[i] = a[i]
      /\ \A i \in 1 .. Len(b) : q[Len(a) + i] = b[i]
  BY <1>1 DEF Octets
<1>3. Len(a) \in Nat /\ Len(b) \in Nat
  BY DEF Octets
<1>4. PICK u, v, w : u = Kept(a) /\ v = Kept(b) /\ w = Kept(q)
  OBVIOUS
<1>5. /\ u \in Seq(Octets) /\ Len(u) = Len(a)
      /\ \A i \in 1 .. Len(a) : u[i] = IF a[i] = Foreign THEN <<>> ELSE <<a[i]>>
  BY <1>4, KeptTyped, Zenon
<1>6. /\ v \in Seq(Octets) /\ Len(v) = Len(b)
      /\ \A i \in 1 .. Len(b) : v[i] = IF b[i] = Foreign THEN <<>> ELSE <<b[i]>>
  BY <1>4, KeptTyped, Zenon
<1>7. /\ w \in Seq(Octets) /\ Len(w) = Len(q)
      /\ \A i \in 1 .. Len(q) : w[i] = IF q[i] = Foreign THEN <<>> ELSE <<q[i]>>
  BY <1>2, <1>4, KeptTyped, Zenon
<1>8. PICK z : z = u \o v
  BY Zenon
<1>9. /\ z \in Seq(Octets) /\ Len(z) = Len(u) + Len(v)
      /\ \A i \in 1 .. Len(u) : z[i] = u[i]
      /\ \A i \in 1 .. Len(v) : z[Len(u) + i] = v[i]
  <2>1. u \in Seq(Octets) /\ v \in Seq(Octets)
    BY <1>5, <1>6, Zenon
  <2> QED
    BY <1>8, <2>1, PartsConcat
<1>10. ASSUME NEW i \in 1 .. Len(w) PROVE w[i] = z[i]
  <2>1. i \in 1 .. Len(q)
    BY <1>7
  <2>2. w[i] = IF q[i] = Foreign THEN <<>> ELSE <<q[i]>>
    BY <1>7, <2>1, Zenon
  <2>3. CASE i \in 1 .. Len(a)
    BY <1>2, <1>5, <1>9, <2>2, <2>3, Zenon
  <2>4. CASE ~(i \in 1 .. Len(a))
    <3>1. PICK j : j = i - Len(a)
      OBVIOUS
    <3>2. j \in 1 .. Len(b) /\ i = Len(a) + j
      BY <1>2, <1>3, <2>1, <2>4, <3>1, SMTT(60)
    <3>3. q[i] = b[j] /\ z[i] = v[j]
      BY <1>2, <1>5, <1>6, <1>9, <3>2, Zenon
    <3> QED
      BY <1>6, <2>2, <3>2, <3>3, Zenon
  <2> QED
    BY <2>3, <2>4
<1>11. w = z
  <2>1. Len(w) = Len(z)
    BY <1>2, <1>5, <1>6, <1>7, <1>9, SMTT(60)
  <2> QED
    BY <1>7, <1>9, <1>10, <2>1, SeqEqual, ZenonT(60)
<1>12. Flatten(z) = Flatten(u) \o Flatten(v) /\ Flatten(u) \in Octets /\ Flatten(v) \in Octets
  BY <1>5, <1>6, <1>8, FlattenConcat, FlattenTyped, Zenon
<1>13. Known(a) = Flatten(u) /\ Known(b) = Flatten(v) /\ Known(q) = Flatten(w)
  BY <1>4, Zenon DEF Known, Kept
<1> QED
  BY <1>1, <1>2, <1>11, <1>12, <1>13, Zenon

\* One character.
LEMMA KnownOne ==
    ASSUME NEW x \in Nat
    PROVE  Known(<<x>>) = IF x = Foreign THEN <<>> ELSE <<x>>
<1>1. PICK q, e : q = <<x>> /\ e = IF x = Foreign THEN <<>> ELSE <<x>>
  BY Zenon
<1>2. q \in Octets /\ Len(q) = 1 /\ q[1] = x
  BY <1>1 DEF Octets
<1>3. PICK k : k = Kept(q)
  OBVIOUS
<1>4. k \in Seq(Octets) /\ Len(k) = 1 /\ k[1] = e
  <2>1. 1 \in 1 .. 1
    OBVIOUS
  <2> QED
    BY <1>1, <1>2, <1>3, <2>1, KeptTyped, Zenon
<1>5. e \in Octets
  BY <1>1, CharKept, Zenon
<1>6. k = <<e>>
  <2>1. <<e>> \in Seq(Octets) /\ Len(<<e>>) = 1 /\ <<e>>[1] = e
    BY <1>5
  <2>2. \A i \in 1 .. 1 : i = 1
    OBVIOUS
  <2> QED
    BY <1>4, <2>1, <2>2, SeqEqual, Zenon
<1>7. Flatten(k) = e
  BY <1>5, <1>6, FlattenOne, Zenon
<1> QED
  BY <1>1, <1>3, <1>7, Zenon DEF Known, Kept

\* A text without foreign characters is known as a whole.
LEMMA KnownAll ==
    ASSUME NEW q \in Octets, \A i \in 1 .. Len(q) : q[i] # Foreign
    PROVE  Known(q) = q
<1> DEFINE Pure(u) == \A i \in 1 .. Len(u) : u[i] # Foreign
           T == {u \in Seq(Nat) : Pure(u) => Known(u) = u}
<1>1. <<>> \in T
  <2>1. PICK e : e = <<>>
    OBVIOUS
  <2>2. e \in Octets /\ Len(e) = 0
    BY <2>1 DEF Octets
  <2>3. Kept(e) \in Seq(Octets) /\ Len(Kept(e)) = 0
    BY <2>2, KeptTyped, Zenon
  <2>4. Kept(e) = <<>>
    BY <2>3
  <2>5. Known(e) = e
    BY <2>1, <2>4, FlattenEmpty, Zenon DEF Known, Kept
  <2> QED
    BY <2>1, <2>2, <2>5, Zenon DEF Octets
<1>2. ASSUME NEW u \in Seq(Nat), NEW x \in Nat, u \in T PROVE Append(u, x) \in T
  <2>1. PICK w : w = Append(u, x)
    BY Zenon
  <2>2. /\ w \in Seq(Nat) /\ Len(w) = Len(u) + 1 /\ w[Len(u) + 1] = x /\ w = u \o <<x>>
        /\ \A i \in 1 .. Len(u) : w[i] = u[i]
    BY <2>1, AppendIsConcat
  <2>3. ASSUME Pure(w) PROVE Known(w) = w
    <3>1. Pure(u) /\ x # Foreign
      BY <2>2, <2>3
    <3>2. Known(u) = u /\ Known(<<x>>) = <<x>>
      BY <1>2, <3>1, KnownOne, Zenon
    <3>3. u \in Octets /\ <<x>> \in Octets
      BY CharKept, Zenon DEF Octets
    <3>4. Known(u \o <<x>>) = Known(u) \o Known(<<x>>)
      BY <3>3, KnownConcat, Zenon
    <3>5. w = u \o <<x>>
      BY <2>2, Zenon
    <3>6. Known(u) \o Known(<<x>>) = u \o <<x>>
      BY <3>2, Zenon
    <3> QED
      BY <3>4, <3>5, <3>6, Zenon
  <2> QED
    BY <2>1, <2>2, <2>3, Zenon
<1> HIDE DEF T
<1>3. Seq(Nat) \subseteq T
  BY <1>1, <1>2, SeqInduction, SMTT(60)
<1>4. q \in T
  BY <1>3, SMTT(60) DEF Octets
<1> QED
  BY <1>4 DEF T

\* The text base64_encode writes has no foreign character.
LEMMA TextIsKnown ==
    ASSUME NEW s \in Seq(0 .. 255), NEW t, TextOf(t, s)
    PROVE  Known(t) = t
<1>1. PICK n, B, M : Laid(t, s, n, B, M)
  BY TextLaid, SMTT(60)
<1>2. /\ t \in Octets /\ Len(t) = 4 * B /\ B \in Nat
      /\ \A k \in 1 .. B, j \in 1 .. 4 :
            t[4 * (k - 1) + j] = IF 4 * (k - 1) + j <= 4 * B - M
                                 THEN Group(s, k)[j] ELSE Pad
  BY <1>1 DEF Laid
<1>3. ASSUME NEW i \in 1 .. Len(t) PROVE t[i] # Foreign
  <2>1. i \in 1 .. 4 * B
    BY <1>2, Zenon
  <2>2. PICK k \in 1 .. B, j \in 1 .. 4 : i = 4 * (k - 1) + j
    BY <1>2, <2>1, PlaceInGroup, Zenon
  <2>3. t[i] = Group(s, k)[j] \/ t[i] = Pad
    BY <1>2, <2>2, Zenon
  <2>4. k \in Nat /\ k >= 1
    BY <1>2
  <2>5. Group(s, k)[j] \in 0 .. 63
    BY <2>4, GroupTyped, Zenon
  <2>6. (\A x \in 0 .. 63 : x # Foreign) /\ Pad # Foreign
    BY DEF Foreign, Pad
  <2> QED
    BY <2>3, <2>5, <2>6, Zenon
<1> QED
  BY <1>2, <1>3, KnownAll, SMTT(60)

\* A foreign character more makes no difference.
LEMMA ForeignSkipped ==
    ASSUME NEW q \in Octets, NEW n \in 1 .. Len(q) + 1
    PROVE  /\ SubSeq(q, 1, n - 1) \o <<Foreign>> \o Drop(q, n - 1) \in Octets
           /\ Known(SubSeq(q, 1, n - 1) \o <<Foreign>> \o Drop(q, n - 1)) = Known(q)
<1>1. PICK a, b, c : /\ a = SubSeq(q, 1, n - 1) /\ b = <<Foreign>>
                     /\ c = SubSeq(q, (n - 1) + 1, Len(q))
  BY Zenon
<1>2. a \in Octets /\ c \in Octets /\ a \o c = q
  <2>1. /\ q \in Seq(Nat) /\ Len(q) \in Nat /\ 1 \in 1 .. Len(q) + 1
        /\ n - 1 \in 1 - 1 .. Len(q) /\ Len(q) \in n - 1 .. Len(q)
    BY DEF Octets
  <2>2. a \in Seq(Nat) /\ c \in Seq(Nat)
    BY <1>1, <2>1, SMTT(60)
  <2>3. a \o c = SubSeq(q, 1, Len(q))
    BY <1>1, <2>1, ConcatAdjacentSubSeq, Zenon
  <2>4. SubSeq(q, 1, Len(q)) = q
    BY <2>1
  <2> QED
    BY <2>2, <2>3, <2>4, Zenon DEF Octets
<1>3. b \in Octets /\ Known(b) = <<>>
  <2>1. Foreign \in Nat
    BY DEF Foreign
  <2> QED
    BY <1>1, <2>1, CharKept, KnownOne, Zenon
<1>4. a \o b \in Octets /\ Known(a \o b) = Known(a) \o Known(b) /\ Known(a) \in Octets
  BY <1>2, <1>3, KnownConcat, Zenon
<1>5. Known(a) \o Known(b) = Known(a)
  BY <1>3, <1>4 DEF Octets
<1>6. PICK d : d = a \o b
  BY Zenon
<1>7. d \in Octets /\ Known(d) = Known(a)
  BY <1>4, <1>5, <1>6, Zenon
<1>8. d \o c \in Octets /\ Known(d \o c) = Known(d) \o Known(c)
  BY <1>2, <1>7, KnownConcat, Zenon
<1>9. Known(a \o c) = Known(a) \o Known(c)
  BY <1>2, KnownConcat, Zenon
<1>10. Known(d \o c) = Known(q)
  BY <1>2, <1>7, <1>8, <1>9, SMTT(60)
<1>11. SubSeq(q, 1, n - 1) \o <<Foreign>> \o Drop(q, n - 1) = d \o c
  BY <1>1, <1>6, Zenon DEF Drop
<1> QED
  BY <1>8, <1>10, <1>11, Zenon

\* The inductive invariant of the text on its way.
TextInv ==
    /\ src \in Seq(0 .. 255)
    /\ text \in Octets
    /\ Known(text) = base64_encode(src)

\* What encoding a payload makes of the invariant.
LEMMA EncodedKnown ==
    ASSUME NEW s \in Seq(0 .. 255)
    PROVE  base64_encode(s) \in Octets /\ Known(base64_encode(s)) = base64_encode(s)
<1>1. TextOf(base64_encode(s), s)
  BY EncodeWrites, SMTT(60)
<1>2. base64_encode(s) \in Octets
  BY <1>1 DEF TextOf
<1> QED
  BY <1>1, <1>2, TextIsKnown, Zenon

\* The empty payload has the empty text.
LEMMA EmptyText ==
    ASSUME NEW t, TextOf(t, <<>>)
    PROVE  t = <<>>
<1>1. PICK e : e = <<>>
  OBVIOUS
<1>2. e \in Seq(0 .. 255) /\ Len(e) = 0
  BY <1>1
<1>3. Groups(0) = 0
  BY DEF Groups
<1>4. t \in Octets /\ Len(t) = 4 * Groups(Len(e))
  BY <1>1, Zenon DEF TextOf
<1>5. Len(t) = 0
  BY <1>2, <1>3, <1>4, SMTT(60)
<1> QED
  BY <1>4, <1>5 DEF Octets

\* What dtable knows of the text is what base64_encode wrote.
LEMMA TextInvariance == TextSpec => []TextInv
<1>1. TextInit => TextInv
  <2> SUFFICES ASSUME TextInit PROVE TextInv
    OBVIOUS
  <2>1. PICK e : e = <<>>
    OBVIOUS
  <2>2. e \in Seq(0 .. 255)
    BY <2>1
  <2>3. TextOf(base64_encode(e), e)
    BY <2>2, EncodeWrites
  <2>4. base64_encode(e) = e
    BY <2>1, <2>3, EmptyText, Zenon
  <2>5. e \in Octets /\ Known(e) = base64_encode(e)
    BY <2>2, <2>4, EncodedKnown, SMTT(60)
  <2> QED
    BY <2>1, <2>2, <2>5, SMTT(60) DEF TextInit, TextInv
<1>2. TextInv /\ [TextNext]_textVars => TextInv'
  <2> SUFFICES ASSUME TextInv, [TextNext]_textVars PROVE TextInv'
    OBVIOUS
  <2>1. src \in Seq(0 .. 255) /\ text \in Octets /\ Known(text) = base64_encode(src)
    BY DEF TextInv
  <2>2. ASSUME NEW b \in PayloadBytes, Extend(b) PROVE TextInv'
    <3>1. PICK s : s = src'
      OBVIOUS
    <3>2. b \in 0 .. 255
      BY PayloadAssumption, SMTT(60)
    <3>3. s \in Seq(0 .. 255)
      BY <2>1, <2>2, <3>1, <3>2, SMTT(60) DEF Extend
    <3>4. text' = base64_encode(s)
      BY <2>2, <3>1, SMTT(60) DEF Extend
    <3>5. base64_encode(s) \in Octets /\ Known(base64_encode(s)) = base64_encode(s)
      BY <3>3, EncodedKnown, SMTT(60)
    <3> QED
      BY <3>1, <3>3, <3>4, <3>5, SMTT(60) DEF TextInv
  <2>3. ASSUME NEW n \in 1 .. Len(text) + 1, Insert(n) PROVE TextInv'
    <3>1. PICK q, r : q = text /\ r = text'
      OBVIOUS
    <3>2. r = SubSeq(q, 1, n - 1) \o <<Foreign>> \o Drop(q, n - 1) /\ src' = src
      BY <2>3, <3>1, SMTT(60) DEF Insert
    <3>3. q \in Octets /\ n \in 1 .. Len(q) + 1
      BY <2>1, <2>3, <3>1, SMTT(60)
    <3>4. r \in Octets /\ Known(r) = Known(q)
      BY <3>2, <3>3, ForeignSkipped, SMTT(60)
    <3> QED
      BY <2>1, <3>1, <3>2, <3>4, SMTT(60) DEF TextInv
  <2>4. CASE UNCHANGED textVars
    BY <2>1, <2>4, SMTT(60) DEF TextInv, textVars
  <2> QED
    BY <2>2, <2>3, <2>4, SMTT(60) DEF TextNext
<1> QED
  BY <1>1, <1>2, PTL DEF TextSpec

\* Whatever the payload and the characters that got into the text: the payload
\* comes back, and only the empty one decodes to NULL.
THEOREM TextComesBack == TextSpec => []TextRoundTrip
<1>1. TextInv => TextRoundTrip
  <2> SUFFICES ASSUME TextInv PROVE TextRoundTrip
    OBVIOUS
  <2>1. PICK s, x : s = src /\ x = text
    OBVIOUS
  <2>2. s \in Seq(0 .. 255) /\ Known(x) = base64_encode(s)
    BY <2>1 DEF TextInv
  <2>3. TextOf(Known(x), s)
    BY <2>2, EncodeWrites
  <2>4. CASE s # <<>>
    <3>1. base64_decode(x) = s
      BY <2>2, <2>3, <2>4, DecodeText, SMTT(60)
    <3> QED
      BY <2>1, <2>4, <3>1, SMTT(60) DEF TextRoundTrip
  <2>5. CASE s = <<>>
    <3>1. Known(x) = <<>>
      BY <2>3, <2>5, EmptyText, SMTT(60)
    <3>2. Len(Known(x)) = 0
      BY <3>1
    <3>3. base64_decode(x) = Failure
      BY <3>2, DecodeParts, Zenon DEF Decoded
    <3> QED
      BY <2>1, <2>5, <3>3, SMTT(60) DEF TextRoundTrip
  <2> QED
    BY <2>4, <2>5
<1> QED
  BY <1>1, TextInvariance, PTL

\* The text fits the buffer that base64_encode allocates.
LEMMA TextFits ==
    ASSUME NEW n \in Nat
    PROVE  4 * Groups(n) + 1 <= encode_alloc(n)
<1>1. PICK o : o = (n * 4) \div 3 + 4
  OBVIOUS
<1>2. o \in Nat /\ 3 * o >= n * 4 + 10
  BY <1>1
<1>3. Groups(n) \in Nat /\ 3 * Groups(n) <= n + 2
  BY DEF Groups
<1>4. o \div 72 \in Nat
  BY <1>2
<1>5. 4 * Groups(n) <= o
  BY <1>2, <1>3
<1>6. encode_alloc(n) = o + (o \div 72) + 1
  BY <1>1, ZenonT(60) DEF encode_alloc
<1> QED
  BY <1>2, <1>3, <1>4, <1>5, <1>6, SMTT(60)

\* Where bit i of the text and of the payload is: bit p of group k.
LEMMA BitPlace ==
    ASSUME NEW i \in Nat, i >= 1
    PROVE  \E k \in Nat, p \in 0 .. 23 :
              /\ k >= 1 /\ i - 1 = 24 * (k - 1) + p
              /\ (i - 1) \div 6 + 1 = 4 * (k - 1) + (p \div 6 + 1) /\ (i - 1) % 6 = p % 6
              /\ (i - 1) \div 8 + 1 = 3 * (k - 1) + (p \div 8 + 1) /\ (i - 1) % 8 = p % 8
              /\ p \div 6 + 1 \in 1 .. 4 /\ p \div 8 + 1 \in 1 .. 3
<1>1. PICK m \in Nat : m = i - 1
  OBVIOUS
<1>2. PICK q \in Nat, p \in 0 .. 23 : m = 24 * q + p
  <2>1. m \div 24 \in Nat /\ m % 24 \in 0 .. 23 /\ m = 24 * (m \div 24) + (m % 24)
    OBVIOUS
  <2> QED
    BY <2>1
<1>3. m \div 6 = 4 * q + p \div 6 /\ m % 6 = p % 6
  BY <1>2
<1>4. m \div 8 = 3 * q + p \div 8 /\ m % 8 = p % 8
  BY <1>2
<1>5. p \div 6 + 1 \in 1 .. 4 /\ p \div 8 + 1 \in 1 .. 3
  OBVIOUS
<1>6. PICK k \in Nat : k = q + 1
  OBVIOUS
<1>7. /\ k >= 1 /\ i - 1 = 24 * (k - 1) + p
      /\ (i - 1) \div 6 + 1 = 4 * (k - 1) + (p \div 6 + 1) /\ (i - 1) % 6 = p % 6
      /\ (i - 1) \div 8 + 1 = 3 * (k - 1) + (p \div 8 + 1) /\ (i - 1) % 8 = p % 8
  BY <1>1, <1>2, <1>3, <1>4, <1>6, SMTT(60)
<1> QED
  BY <1>5, <1>7

\* Byte j of group k.
LEMMA ByteOfGroup ==
    ASSUME NEW s, NEW k \in Nat, NEW j \in 1 .. 3
    PROVE  <<ByteAt(s, 3 * k - 2), ByteAt(s, 3 * k - 1), ByteAt(s, 3 * k)>>[j]
             = ByteAt(s, 3 * (k - 1) + j)
<1>1. CASE j = 1
  <2>1. 3 * (k - 1) + j = 3 * k - 2
    BY <1>1
  <2> QED
    BY <1>1, <2>1
<1>2. CASE j = 2
  <2>1. 3 * (k - 1) + j = 3 * k - 1
    BY <1>2
  <2> QED
    BY <1>2, <2>1
<1>3. CASE j = 3
  <2>1. 3 * (k - 1) + j = 3 * k
    BY <1>3, SMTT(60)
  <2> QED
    BY <1>3, <2>1
<1> QED
  BY <1>1, <1>2, <1>3, SMTT(60)

\* The bits of the payload, and the zeros after it.
LEMMA PayloadBit ==
    ASSUME NEW s \in Seq(0 .. 255), NEW i \in Nat, i >= 1
    PROVE  (ByteAt(s, (i - 1) \div 8 + 1) \div Power[8 - ((i - 1) % 8)]) % 2
             = IF i <= 8 * Len(s) THEN BitOf(s, 8, i) ELSE 0
<1>1. PICK n \in Nat : n = Len(s)
  OBVIOUS
<1>2. PICK e \in Nat, r \in 0 .. 7 : e = (i - 1) \div 8 + 1 /\ r = (i - 1) % 8 /\ i = 8 * (e - 1) + r + 1
  <2>1. PICK m \in Nat : m = i - 1
    OBVIOUS
  <2>2. m \div 8 + 1 \in Nat /\ m % 8 \in 0 .. 7 /\ m = 8 * (m \div 8) + (m % 8)
    OBVIOUS
  <2> QED
    BY <2>1, <2>2
<1>3. CASE i <= 8 * n
  <2>1. e <= n
    BY <1>2, <1>3
  <2>2. ByteAt(s, e) = s[e]
    BY <1>1, <2>1, Zenon DEF ByteAt
  <2> QED
    BY <1>1, <1>2, <1>3, <2>2, ZenonT(60) DEF BitOf
<1>4. CASE ~(i <= 8 * n)
  <2>1. ~(e <= n)
    BY <1>2, <1>4
  <2>2. ByteAt(s, e) = 0
    BY <1>1, <2>1, Zenon DEF ByteAt
  <2>3. PICK w : w = Power[8 - r]
    OBVIOUS
  <2>4. w \in Nat /\ w # 0
    <3>1. /\ Power[1] = 1 /\ Power[2] = 2 /\ Power[3] = 4 /\ Power[4] = 8
          /\ Power[5] = 16 /\ Power[6] = 32 /\ Power[7] = 64 /\ Power[8] = 128
      BY DEF Power
    <3> HIDE DEF Power
    <3>2. PICK x \in 1 .. 8 : x = 8 - r
      OBVIOUS
    <3>3. Power[x] \in Nat /\ Power[x] # 0
      BY <3>1, SMTT(60)
    <3> QED
      BY <2>3, <3>2, <3>3, SMTT(60)
  <2>5. (0 \div w) % 2 = 0
    BY <2>4
  <2> QED
    BY <1>1, <1>2, <1>4, <2>2, <2>3, <2>5, ZenonT(60)
<1> QED
  BY <1>3, <1>4

\* The bits of the text before its padding.
LEMMA TextBits ==
    ASSUME NEW s \in Seq(0 .. 255), NEW t, NEW n, NEW B, NEW M, Laid(t, s, n, B, M),
           NEW body, \A c \in 1 .. 4 * B - M : body[c] = t[c], NEW i \in 1 .. 6 * (4 * B - M)
    PROVE  BitOf(body, 6, i) = IF i <= 8 * Len(s) THEN BitOf(s, 8, i) ELSE 0
<1>1. /\ B \in Nat /\ M \in 0 .. 2
      /\ \A k \in 1 .. B, j \in 1 .. 4 :
            t[4 * (k - 1) + j] = IF 4 * (k - 1) + j <= 4 * B - M
                                 THEN Group(s, k)[j] ELSE Pad
  BY SMTT(60) DEF Laid
<1>2. i \in Nat /\ i >= 1
  BY <1>1
<1>3. PICK k \in Nat, p \in 0 .. 23 :
              /\ k >= 1 /\ i - 1 = 24 * (k - 1) + p
              /\ (i - 1) \div 6 + 1 = 4 * (k - 1) + (p \div 6 + 1) /\ (i - 1) % 6 = p % 6
              /\ (i - 1) \div 8 + 1 = 3 * (k - 1) + (p \div 8 + 1) /\ (i - 1) % 8 = p % 8
              /\ p \div 6 + 1 \in 1 .. 4 /\ p \div 8 + 1 \in 1 .. 3
  BY <1>2, BitPlace, Zenon
<1>4. PICK j \in 1 .. 4, c \in Nat : j = p \div 6 + 1 /\ c = 4 * (k - 1) + j
  <2>1. 4 * (k - 1) + (p \div 6 + 1) \in Nat
    BY <1>3, SMTT(60)
  <2> QED
    BY <1>3, <2>1, ZenonT(60)
<1>5. c \in 1 .. 4 * B - M /\ k \in 1 .. B
  BY <1>1, <1>2, <1>3, <1>4, SMTT(60)
<1>6. body[c] = Group(s, k)[j]
  <2>1. c <= 4 * B - M
    BY <1>1, <1>5, SMTT(60)
  <2>2. t[c] = Group(s, k)[j]
    BY <1>1, <1>4, <1>5, <2>1, ZenonT(60)
  <2> QED
    BY <1>5, <2>2, ZenonT(60)
<1>7. PICK g, h : /\ g = Group(s, k)
                  /\ h = <<ByteAt(s, 3 * k - 2), ByteAt(s, 3 * k - 1), ByteAt(s, 3 * k)>>
  BY ZenonT(60)
<1>8. SameBit(g, h, p)
  <2>1. PICK x, y, z : /\ x = ByteAt(s, 3 * k - 2) /\ y = ByteAt(s, 3 * k - 1)
                       /\ z = ByteAt(s, 3 * k)
    BY SMTT(60)
  <2>2. /\ 3 * k - 2 \in Nat /\ 3 * k - 2 >= 1 /\ 3 * k - 1 \in Nat /\ 3 * k - 1 >= 1
        /\ 3 * k \in Nat /\ 3 * k >= 1
    BY <1>3, SMTT(60)
  <2>3. x \in 0 .. 255 /\ y \in 0 .. 255 /\ z \in 0 .. 255
    BY <2>1, <2>2, ByteTyped, ZenonT(60)
  <2>4. SameBit(block_of(x, y, z), <<x, y, z>>, p)
    BY <1>3, <2>3, BlockBits, ZenonT(60)
  <2>5. g = block_of(x, y, z) /\ h = <<x, y, z>>
    BY <1>7, <2>1, Zenon DEF Group
  <2> QED
    BY <2>4, <2>5, Zenon
<1>9. BitOf(body, 6, i) = BitIn(g, 6, p)
  BY <1>3, <1>4, <1>6, <1>7, Zenon DEF BitOf, BitIn
<1>10. BitIn(h, 8, p) = (ByteAt(s, (i - 1) \div 8 + 1) \div Power[8 - ((i - 1) % 8)]) % 2
  <2>1. h[p \div 8 + 1] = ByteAt(s, 3 * (k - 1) + (p \div 8 + 1))
    BY <1>3, <1>7, ByteOfGroup, ZenonT(60)
  <2> QED
    BY <1>3, <2>1, Zenon DEF BitIn
<1>11. (ByteAt(s, (i - 1) \div 8 + 1) \div Power[8 - ((i - 1) % 8)]) % 2
         = IF i <= 8 * Len(s) THEN BitOf(s, 8, i) ELSE 0
  BY <1>2, PayloadBit, Zenon
<1> QED
  BY <1>8, <1>9, <1>10, <1>11, ZenonT(60) DEF SameBit

\* Whatever the payload: base64_encode lays out its bits, pads the text and keeps
\* within the buffer it allocates.
THEOREM BitsEncoded == TextSpec => []EncodesBits
<1>1. TextInv => EncodesBits
  <2> SUFFICES ASSUME TextInv PROVE EncodesBits
    OBVIOUS
  <2>1. PICK s, t, n, B, M : /\ s = src /\ t = base64_encode(s) /\ n = Len(s)
                             /\ B = Groups(n) /\ M = Missing(n)
    BY Zenon
  <2>2. s \in Seq(0 .. 255)
    BY <2>1 DEF TextInv
  <2>3. TextOf(t, s)
    BY <2>1, <2>2, EncodeWrites
  <2>4. Laid(t, s, n, B, M)
    <3>1. Laid(t, s, Len(s), Groups(Len(s)), Missing(Len(s)))
      BY <2>2, <2>3, TextLaid, ZenonT(60)
    <3> QED
      BY <2>1, <3>1, Zenon
  <2>5. /\ n \in Nat /\ B \in Nat /\ M \in 0 .. 2 /\ 3 * B = n + M
        /\ t \in Octets /\ Len(t) = 4 * B
    BY <2>4 DEF Laid
  <2>6. PICK body : body = SubSeq(t, 1, Len(t) - M)
    BY Zenon
  <2>7. Len(body) = 4 * B - M /\ \A c \in 1 .. 4 * B - M : body[c] = t[c]
    <3>1. 4 * B - M \in 0 .. Len(t)
      BY <2>5
    <3>2. body = SubSeq(t, 1, 4 * B - M)
      BY <2>5, <2>6, Zenon
    <3> QED
      BY <2>5, <3>1, <3>2, BytesUpTo, Zenon DEF Octets
  <2>8. Len(t) = 4 * ((Len(src) + 2) \div 3)
    BY <2>1, <2>5, Zenon DEF Groups
  <2>9. \A i \in DOMAIN t : (t[i] = Pad) <=> (i > Len(body))
    <3>1. DOMAIN t = 1 .. 4 * B
      BY <2>5, SMTT(60) DEF Octets
    <3>2. PadsLast(t, B, M)
      BY <2>2, <2>4, PadPlaces, SMTT(60)
    <3> QED
      BY <2>7, <3>1, <3>2, ZenonT(60) DEF PadsLast
  <2>10. \A i \in 1 .. 6 * Len(body) :
            BitOf(body, 6, i) = (IF i <= 8 * Len(src) THEN BitOf(src, 8, i) ELSE 0)
    <3>1. \A i \in 1 .. 6 * (4 * B - M) :
              BitOf(body, 6, i) = IF i <= 8 * Len(s) THEN BitOf(s, 8, i) ELSE 0
      BY <2>2, <2>4, <2>7, TextBits, ZenonT(60)
    <3> QED
      BY <2>1, <2>7, <3>1, Zenon
  <2>11. Len(t) + 1 <= encode_alloc(Len(src))
    BY <2>1, <2>5, TextFits
  <2>12. (3 - (Len(src) % 3)) % 3 = M
    BY <2>1, Zenon DEF Missing
  <2> QED
    BY <2>1, <2>6, <2>8, <2>9, <2>10, <2>11, <2>12, ZenonT(60) DEF EncodesBits
<1> QED
  BY <1>1, TextInvariance, PTL

=============================================================================
