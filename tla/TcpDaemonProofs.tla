-------------------------- MODULE TcpDaemonProofs --------------------------
(***************************************************************************)
(* Proofs about the parts of the TCP daemon that run side by side.         *)
(*                                                                         *)
(* The handlers on the io_service: every open port has one accept under    *)
(* way and every client its own handler, and the messages of all client    *)
(* connections come out on the serial line whole and in order, for any     *)
(* ports, clients, connections, messages, lengths and failures, for each   *)
(* half alone and for the two on one io_service.                           *)
(*                                                                         *)
(* serial_port_tick, which repeats and reorders no byte and loses none but *)
(* the end of a short write, for any streams and buffer sizes, whenever    *)
(* the operations complete and however many bytes they return.             *)
(***************************************************************************)
EXTENDS MCTcpHandlers, SerialTick, SequenceTheorems, TLAPS

-----------------------------------------------------------------------------
(* The acceptors.                                                          *)

Typed ==
    /\ running \in BOOLEAN
    /\ to_open \in Seq(Ports) /\ listening \subseteq Ports
    /\ handlers \in Nat
    /\ standby \in [Ports -> Nat] /\ accepted \in [Ports -> Nat]
    /\ \A p \in Ports : standby[p] <= handlers /\ accepted[p] <= handlers
    /\ failed \subseteq Ports
    /\ backlog \in [Ports -> Seq(Clients)]
    /\ peer \in Seq(Clients \cup {None}) /\ Len(peer) = handlers
    /\ started \subseteq Handlers
    /\ reset \subseteq Clients

\* The loop in main() comes to each port once.
Opening ==
    /\ \A i \in 1 .. Len(to_open) : to_open[i] \notin listening
    /\ \A i, j \in 1 .. Len(to_open) : to_open[i] = to_open[j] => i = j

\* Every open port has one accept under way, until one fails there.
Accepting ==
    \A p \in Ports :
        /\ standby[p] = 0 \/ accepted[p] = 0
        /\ p \in listening /\ p \notin failed => standby[p] # 0 \/ accepted[p] # 0
        /\ p \in failed => standby[p] = 0
        /\ p \notin listening => standby[p] = 0 /\ accepted[p] = 0 /\ p \notin failed

\* Handlers standing by are unused, and no two ports have the same handler.
StandingBy ==
    /\ \A p \in Ports :
          standby[p] # 0 => peer[standby[p]] = None /\ standby[p] \notin started
    /\ \A p \in Ports :
          accepted[p] # 0 /\ p \notin failed => peer[accepted[p]] # None
    /\ \A p, q \in Ports :
          p # q => /\ standby[p] = standby[q] => standby[p] = 0
                   /\ accepted[p] = accepted[q] => accepted[p] = 0
                   /\ standby[p] = accepted[q] => standby[p] = 0

\* Started handlers serve a client, and no two the same one.
Serving ==
    /\ \A h \in started : peer[h] # None
    /\ \A g, h \in Handlers : peer[g] = peer[h] => g = h \/ peer[g] = None

\* A client is in one place: once in one listen queue, or at one handler.
Queued ==
    /\ \A p, q \in Ports :
          \A i \in 1 .. Len(backlog[p]), j \in 1 .. Len(backlog[q]) :
              backlog[p][i] = backlog[q][j] => p = q /\ i = j
    /\ \A p \in Ports, h \in Handlers :
          \A i \in 1 .. Len(backlog[p]) : backlog[p][i] # peer[h]

IInv == Typed /\ Opening /\ Accepting /\ StandingBy /\ Serving /\ Queued

\* A new handler at the socket list's end, standing by at p.
LEMMA NewHandler ==
    ASSUME IInv, NEW p \in Ports, queue_handler(p)
    PROVE  /\ handlers \in Nat /\ handlers' = handlers + 1
           /\ peer' \in Seq(Clients \cup {None}) /\ Len(peer') = handlers + 1
           /\ peer'[handlers + 1] = None
           /\ \A h \in Handlers : h \in 1 .. handlers + 1 /\ peer'[h] = peer[h]
           /\ standby' \in [Ports -> Nat] /\ standby'[p] = handlers + 1
           /\ \A q \in Ports : q # p => standby'[q] = standby[q]
           /\ \A q \in Ports : standby[q] < handlers + 1 /\ accepted[q] < handlers + 1
           /\ \A q \in Ports : standby[q] # 0 => standby[q] \in Handlers
           /\ \A q \in Ports : accepted[q] # 0 => accepted[q] \in Handlers
<1>1. /\ handlers \in Nat /\ handlers' = handlers + 1
      /\ peer' = Append(peer, None) /\ standby' = [standby EXCEPT ![p] = handlers + 1]
  BY DEF queue_handler, IInv, Typed
<1>2. peer \in Seq(Clients \cup {None}) /\ Len(peer) = handlers
  BY <1>1 DEF IInv, Typed
<1>3. /\ peer' \in Seq(Clients \cup {None}) /\ Len(peer') = handlers + 1
      /\ peer'[handlers + 1] = None
      /\ \A h \in 1 .. handlers : peer'[h] = peer[h]
  BY <1>1, <1>2
<1>5. /\ standby' \in [Ports -> Nat] /\ standby'[p] = handlers + 1
      /\ \A q \in Ports : q # p => standby'[q] = standby[q]
  BY <1>1 DEF IInv, Typed
<1>6. \A q \in Ports : /\ standby[q] < handlers + 1 /\ accepted[q] < handlers + 1
                       /\ standby[q] # 0 => standby[q] \in Handlers
                       /\ accepted[q] # 0 => accepted[q] \in Handlers
  BY <1>1 DEF IInv, Typed, Handlers
<1> QED
  BY <1>1, <1>3, <1>5, <1>6 DEF Handlers

\* What a new handler at p, with no accept due there, does to the handlers.
LEMMA NewHandlerStandsBy ==
    ASSUME IInv, NEW p \in Ports, queue_handler(p),
           accepted' \in [Ports -> Nat], accepted'[p] = 0, p \notin failed,
           \A q \in Ports : q # p => accepted'[q] = accepted[q],
           UNCHANGED <<failed, backlog, reset>>,
           started' \subseteq Handlers,
           \A h \in started' : peer[h] # None
    PROVE  StandingBy' /\ Serving' /\ Queued'
<1>0. /\ handlers \in Nat /\ handlers' = handlers + 1
      /\ peer' \in Seq(Clients \cup {None}) /\ Len(peer') = handlers + 1
      /\ peer'[handlers + 1] = None
      /\ \A h \in Handlers : h \in 1 .. handlers + 1 /\ peer'[h] = peer[h]
      /\ standby' \in [Ports -> Nat] /\ standby'[p] = handlers + 1
      /\ \A q \in Ports : q # p => standby'[q] = standby[q]
      /\ \A q \in Ports : standby[q] < handlers + 1 /\ accepted[q] < handlers + 1
      /\ \A q \in Ports : standby[q] # 0 => standby[q] \in Handlers
      /\ \A q \in Ports : accepted[q] # 0 => accepted[q] \in Handlers
  BY NewHandler
<1>1. StandingBy'
  <2>1. ASSUME NEW q \in Ports, standby'[q] # 0
        PROVE  peer'[standby'[q]] = None /\ standby'[q] \notin started'
    <3>1. CASE q = p
      BY <1>0, <3>1 DEF Handlers
    <3>2. CASE q # p
      <4>1. standby'[q] = standby[q] /\ standby[q] \in Handlers
        BY <1>0, <2>1, <3>2
      <4>2. peer[standby[q]] = None
        BY <2>1, <4>1 DEF IInv, StandingBy
      <4> QED
        BY <1>0, <4>1, <4>2
    <3> QED
      BY <3>1, <3>2
  <2>2. ASSUME NEW q \in Ports, accepted'[q] # 0, q \notin failed'
        PROVE  peer'[accepted'[q]] # None
    <3>1. q # p /\ accepted'[q] = accepted[q] /\ accepted[q] \in Handlers
      BY <1>0, <2>2
    <3> QED
      BY <1>0, <2>2, <3>1 DEF IInv, StandingBy
  <2>3. ASSUME NEW q \in Ports, NEW r \in Ports, q # r
        PROVE  /\ standby'[q] = standby'[r] => standby'[q] = 0
               /\ accepted'[q] = accepted'[r] => accepted'[q] = 0
               /\ standby'[q] = accepted'[r] => standby'[q] = 0
    <3>1. /\ standby[q] \in Nat /\ standby[r] \in Nat
          /\ accepted[q] \in Nat /\ accepted[r] \in Nat
      BY DEF IInv, Typed
    <3>2. /\ standby[q] = standby[r] => standby[q] = 0
          /\ accepted[q] = accepted[r] => accepted[q] = 0
          /\ standby[q] = accepted[r] => standby[q] = 0
      BY <2>3 DEF IInv, StandingBy
    <3>3. CASE q = p
      BY <1>0, <2>3, <3>1, <3>2, <3>3
    <3>4. CASE r = p
      BY <1>0, <2>3, <3>1, <3>2, <3>4
    <3>5. CASE q # p /\ r # p
      BY <1>0, <3>2, <3>5
    <3> QED
      BY <3>3, <3>4, <3>5
  <2> QED
    BY <2>1, <2>2, <2>3 DEF StandingBy
<1>2. Serving'
  <2>1. \A h \in started' : peer'[h] # None
    BY <1>0
  <2>2. ASSUME NEW g \in 1 .. handlers + 1, NEW h \in 1 .. handlers + 1,
               peer'[g] = peer'[h], peer'[g] # None
        PROVE  g = h
    <3>1. g \in Handlers /\ h \in Handlers
      BY <1>0, <2>2 DEF Handlers
    <3> QED
      BY <1>0, <2>2, <3>1 DEF IInv, Serving
  <2> QED
    BY <1>0, <2>1, <2>2 DEF Serving, Handlers
<1>3. Queued'
  <2>1. ASSUME NEW q \in Ports, NEW h \in 1 .. handlers + 1,
               NEW i \in 1 .. Len(backlog[q])
        PROVE  backlog[q][i] # peer'[h]
    <3>1. CASE h = handlers + 1
      <4>1. backlog[q] \in Seq(Clients)
        BY DEF IInv, Typed
      <4> QED
        BY <1>0, <3>1, <4>1, AcceptorAssumption
    <3>2. CASE h # handlers + 1
      <4>1. h \in Handlers
        BY <1>0, <3>2 DEF Handlers
      <4> QED
        BY <1>0, <4>1 DEF IInv, Queued
    <3> QED
      BY <3>1, <3>2
  <2> QED
    BY <1>0, <2>1, SMTT(60) DEF IInv, Queued, Handlers
<1> QED
  BY <1>1, <1>2, <1>3

-----------------------------------------------------------------------------
(* The actions.                                                            *)

\* An exception changes nothing but running; nor do resets matter.
LEMMA HandlersUnchanged ==
    ASSUME IInv, UNCHANGED <<to_open, acceptVars, backlog>>,
           running' \in BOOLEAN, reset' \subseteq Clients
    PROVE  IInv'
<1>1. /\ Typed' /\ Opening' /\ Accepting'
  BY DEF acceptVars, IInv, Typed, Opening, Accepting, Handlers
<1>2. StandingBy' /\ Serving' /\ Queued'
  BY DEF acceptVars, IInv, StandingBy, Serving, Queued, Handlers
<1> QED
  BY <1>1, <1>2 DEF IInv

\* main() opens the next acceptor.
LEMMA OpenKeeps ==
    ASSUME IInv, open_acceptor
    PROVE  IInv'
<1>1. ASSUME throw PROVE IInv'
  <2>1. running' \in BOOLEAN /\ UNCHANGED <<to_open, acceptVars, backlog, reset>>
    BY <1>1, Zenon DEF throw, clientVars
  <2> QED
    BY <2>1, HandlersUnchanged DEF IInv, Typed
<1>2. ASSUME to_open # <<>>, to_open' = Tail(to_open),
             listening' = listening \cup {Head(to_open)},
             queue_handler(Head(to_open)),
             UNCHANGED <<running, accepted, failed, started, backlog, reset>>
      PROVE  IInv'
  <2> DEFINE p == Head(to_open)
  <2>1. /\ to_open \in Seq(Ports) /\ Len(to_open) \in Nat \ {0}
        /\ p \in Ports /\ p = to_open[1] /\ p \notin listening
        /\ to_open' \in Seq(Ports) /\ Len(to_open') = Len(to_open) - 1
        /\ \A i \in 1 .. Len(to_open) - 1 : to_open'[i] = to_open[i + 1]
    <3>1. to_open \in Seq(Ports) /\ Len(to_open) \in Nat \ {0}
      BY <1>2 DEF IInv, Typed
    <3>2. p \in Ports /\ p = to_open[1]
      BY <1>2, <3>1
    <3>3. p \notin listening
      BY <3>1, <3>2 DEF IInv, Opening
    <3> QED
      BY <1>2, <3>1, <3>2, <3>3
  <2>2. queue_handler(p) /\ listening' = listening \cup {p}
    BY <1>2
  <2> HIDE DEF p
  <2>3. standby[p] = 0 /\ accepted[p] = 0 /\ p \notin failed
    BY <2>1 DEF IInv, Accepting
  <2>4. StandingBy' /\ Serving' /\ Queued'
    <3>1. /\ accepted' \in [Ports -> Nat] /\ accepted'[p] = 0
          /\ \A q \in Ports : q # p => accepted'[q] = accepted[q]
          /\ started' \subseteq Handlers
          /\ \A h \in started' : peer[h] # None
      BY <1>2, <2>3 DEF IInv, Typed, Serving
    <3> QED
      BY <1>2, <2>1, <2>2, <2>3, <3>1, NewHandlerStandsBy
  <2>5. Typed'
    <3>1. /\ handlers \in Nat /\ handlers' = handlers + 1
          /\ peer' \in Seq(Clients \cup {None}) /\ Len(peer') = handlers + 1
          /\ standby' \in [Ports -> Nat] /\ standby'[p] = handlers + 1
          /\ \A q \in Ports : q # p => standby'[q] = standby[q]
          /\ \A q \in Ports : standby[q] < handlers + 1 /\ accepted[q] < handlers + 1
      BY <2>1, <2>2, NewHandler
    <3>2. \A q \in Ports : standby'[q] <= handlers' /\ accepted'[q] <= handlers'
      <4> SUFFICES ASSUME NEW q \in Ports
                   PROVE  standby'[q] <= handlers' /\ accepted'[q] <= handlers'
        OBVIOUS
      <4>1. standby[q] \in Nat /\ accepted[q] \in Nat /\ accepted'[q] = accepted[q]
        BY <1>2 DEF IInv, Typed
      <4> QED
        BY <3>1, <4>1
    <3>3. started' \subseteq Handlers'
      BY <1>2, <3>1 DEF IInv, Typed, Handlers
    <3> QED
      BY <1>2, <2>1, <2>2, <3>1, <3>2, <3>3, SMTT(60) DEF IInv, Typed
  <2>6. Opening'
    <3>1. ASSUME NEW i \in 1 .. Len(to_open'), NEW j \in 1 .. Len(to_open')
          PROVE  /\ to_open'[i] \notin listening'
                 /\ to_open'[i] = to_open'[j] => i = j
      <4>1. /\ i + 1 \in 1 .. Len(to_open) /\ to_open'[i] = to_open[i + 1]
            /\ j + 1 \in 1 .. Len(to_open) /\ to_open'[j] = to_open[j + 1]
            /\ 1 \in 1 .. Len(to_open) /\ i + 1 # 1
        BY <2>1, <3>1
      <4>2. to_open[i + 1] \notin listening /\ to_open[i + 1] # to_open[1]
        BY <4>1 DEF IInv, Opening
      <4>3. to_open[i + 1] = to_open[j + 1] => i + 1 = j + 1
        BY <4>1 DEF IInv, Opening
      <4> QED
        BY <2>1, <2>2, <3>1, <4>1, <4>2, <4>3
    <3> QED
      BY <3>1 DEF Opening
  <2>7. Accepting'
    <3>1. standby'[p] # 0 /\ \A q \in Ports : q # p => standby'[q] = standby[q]
      BY <2>1, <2>2, NewHandler
    <3> QED
      BY <1>2, <2>1, <2>2, <2>3, <3>1 DEF IInv, Accepting
  <2> QED
    BY <2>4, <2>5, <2>6, <2>7 DEF IInv
<1> QED
  BY <1>1, <1>2, Zenon DEF open_acceptor, clientVars

\* The accept handler: it starts the handler and the next accept, or fails, or throws.
LEMMA AcceptHandlerKeeps ==
    ASSUME IInv, NEW p \in Ports, tcp_server_accept_handler(p)
    PROVE  IInv'
<1>1. ASSUME throw PROVE IInv'
  <2>1. running' \in BOOLEAN /\ UNCHANGED <<to_open, acceptVars, backlog, reset>>
    BY <1>1, Zenon DEF throw, clientVars
  <2> QED
    BY <2>1, HandlersUnchanged, SMTT(60) DEF IInv, Typed
<1>2. ASSUME p \in failed, accepted' = [accepted EXCEPT ![p] = 0],
             UNCHANGED <<running, to_open, listening, handlers, standby,
                         failed, peer, started, backlog, reset>>
      PROVE  IInv'
  <2>1. /\ accepted' \in [Ports -> Nat] /\ accepted'[p] = 0
        /\ \A q \in Ports : q # p => accepted'[q] = accepted[q]
        /\ \A q \in Ports : accepted'[q] = 0 \/ accepted'[q] = accepted[q]
    BY <1>2 DEF IInv, Typed
  <2>2. Typed' /\ Opening'
    BY <1>2, <2>1 DEF IInv, Typed, Opening, Handlers
  <2>3. Accepting'
    BY <1>2, <2>1 DEF IInv, Accepting
  <2>4. StandingBy'
    BY <1>2, <2>1 DEF IInv, StandingBy
  <2>5. Serving' /\ Queued'
    BY <1>2 DEF IInv, Serving, Queued, Handlers
  <2> QED
    BY <2>2, <2>3, <2>4, <2>5 DEF IInv
<1>3. ASSUME accepted[p] # 0, p \notin failed,
             accepted' = [accepted EXCEPT ![p] = 0],
             started' = started \cup {accepted[p]}, queue_handler(p),
             UNCHANGED <<running, to_open, listening, failed, backlog, reset>>
      PROVE  IInv'
  <2>1. /\ accepted' \in [Ports -> Nat] /\ accepted'[p] = 0
        /\ \A q \in Ports : q # p => accepted'[q] = accepted[q]
    BY <1>3 DEF IInv, Typed
  <2>2. /\ handlers \in Nat /\ handlers' = handlers + 1
        /\ peer' \in Seq(Clients \cup {None}) /\ Len(peer') = handlers + 1
        /\ standby' \in [Ports -> Nat] /\ standby'[p] = handlers + 1
        /\ \A q \in Ports : q # p => standby'[q] = standby[q]
        /\ \A q \in Ports : standby[q] < handlers + 1 /\ accepted[q] < handlers + 1
        /\ \A q \in Ports : accepted[q] # 0 => accepted[q] \in Handlers
    BY <1>3, NewHandler
  <2>3. started' \subseteq Handlers /\ \A h \in started' : peer[h] # None
    BY <1>3, <2>2 DEF IInv, Typed, StandingBy, Serving
  <2>4. StandingBy' /\ Serving' /\ Queued'
    BY <1>3, <2>1, <2>3, NewHandlerStandsBy
  <2>5. \A q \in Ports : standby'[q] <= handlers' /\ accepted'[q] <= handlers'
    <3> SUFFICES ASSUME NEW q \in Ports
                 PROVE  standby'[q] <= handlers' /\ accepted'[q] <= handlers'
      OBVIOUS
    <3>1. standby[q] \in Nat /\ accepted[q] \in Nat
      BY DEF IInv, Typed
    <3>2. standby'[q] <= handlers'
      BY <2>2, <3>1
    <3>3. accepted'[q] <= handlers'
      BY <2>1, <2>2, <3>1
    <3> QED
      BY <3>2, <3>3
  <2>6. Typed'
    <3>1. started' \subseteq Handlers'
      BY <2>2, <2>3 DEF Handlers
    <3> QED
      BY <1>3, <2>1, <2>2, <2>5, <3>1, SMTT(60) DEF IInv, Typed
  <2>7. Opening'
    BY <1>3 DEF IInv, Opening
  <2>8. Accepting'
    <3>1. p \in listening
      BY <1>3 DEF IInv, Accepting
    <3> QED
      BY <1>3, <2>1, <2>2, <3>1 DEF IInv, Accepting
  <2> QED
    BY <2>4, <2>6, <2>7, <2>8 DEF IInv
<1> QED
  BY <1>1, <1>2, <1>3, Zenon DEF tcp_server_accept_handler, clientVars

\* A client enters a listen queue.
LEMMA ConnectKeeps ==
    ASSUME IInv, NEW c \in Clients, NEW p \in Ports, connect(c, p)
    PROVE  IInv'
<1>1. /\ ~Waiting(c) /\ ~Joined(c)
      /\ backlog' = [backlog EXCEPT ![p] = Append(@, c)]
      /\ UNCHANGED <<running, to_open, listening, handlers, standby, accepted,
                     failed, peer, started, reset>>
  BY DEF connect, acceptVars
<1>2. backlog \in [Ports -> Seq(Clients)]
  BY DEF IInv, Typed
<1>3. /\ backlog' \in [Ports -> Seq(Clients)]
      /\ backlog[p] \in Seq(Clients) /\ Len(backlog[p]) \in Nat
      /\ Len(backlog'[p]) = Len(backlog[p]) + 1
      /\ \A i \in 1 .. Len(backlog[p]) : backlog'[p][i] = backlog[p][i]
      /\ backlog'[p][Len(backlog[p]) + 1] = c
      /\ \A q \in Ports : q # p => backlog'[q] = backlog[q]
  <2>1. backlog'[p] = Append(backlog[p], c) /\ backlog[p] \in Seq(Clients)
    BY <1>1, <1>2, SMTT(60)
  <2> QED
    BY <1>1, <1>2, <2>1
<1>4. Typed' /\ Opening' /\ Accepting' /\ StandingBy' /\ Serving'
  BY <1>1, <1>3 DEF IInv, Typed, Opening, Accepting, StandingBy, Serving, Handlers
<1>5. \A q \in Ports : \A i \in 1 .. Len(backlog[q]) : backlog[q][i] # c
  <2>1. \A q \in Ports : DOMAIN backlog[q] = 1 .. Len(backlog[q])
    BY <1>2
  <2> QED
    BY <1>1, <2>1 DEF Waiting
<1>6. \A h \in Handlers : peer[h] # c
  <2>1. DOMAIN peer = Handlers
    BY SMTT(60) DEF IInv, Typed, Handlers
  <2> QED
    BY <1>1, <2>1 DEF Joined
\* An entry of a listen queue is an old one or the new one.
<1>7. ASSUME NEW q \in Ports, NEW i \in 1 .. Len(backlog'[q])
      PROVE  \/ i \in 1 .. Len(backlog[q]) /\ backlog'[q][i] = backlog[q][i]
             \/ q = p /\ i = Len(backlog[p]) + 1 /\ backlog'[q][i] = c
  BY <1>3, <1>7, SMTT(60)
<1>8. Queued'
  <2>1. ASSUME NEW q \in Ports, NEW r \in Ports,
               NEW i \in 1 .. Len(backlog'[q]), NEW j \in 1 .. Len(backlog'[r]),
               backlog'[q][i] = backlog'[r][j]
        PROVE  q = r /\ i = j
    <3>1. /\ \/ i \in 1 .. Len(backlog[q]) /\ backlog'[q][i] = backlog[q][i]
             \/ q = p /\ i = Len(backlog[p]) + 1 /\ backlog'[q][i] = c
          /\ \/ j \in 1 .. Len(backlog[r]) /\ backlog'[r][j] = backlog[r][j]
             \/ r = p /\ j = Len(backlog[p]) + 1 /\ backlog'[r][j] = c
      BY <1>7, SMTT(60)
    <3> QED
      BY <1>5, <2>1, <3>1, SMTT(60) DEF IInv, Queued
  <2>2. ASSUME NEW q \in Ports, NEW h \in Handlers, NEW i \in 1 .. Len(backlog'[q])
        PROVE  backlog'[q][i] # peer[h]
    <3>1. \/ i \in 1 .. Len(backlog[q]) /\ backlog'[q][i] = backlog[q][i]
          \/ q = p /\ i = Len(backlog[p]) + 1 /\ backlog'[q][i] = c
      BY <1>7
    <3> QED
      BY <1>6, <3>1 DEF IInv, Queued
  <2> QED
    BY <1>1, <2>1, <2>2, SMTT(60) DEF Queued, Handlers
<1> QED
  BY <1>4, <1>8 DEF IInv

\* The operating system completes an accept.
LEMMA AcceptKeeps ==
    ASSUME IInv, NEW p \in Ports, accept(p)
    PROVE  IInv'
<1> DEFINE s == standby[p]
           c == Head(backlog[p])
<1>1. /\ s # 0 /\ backlog[p] # <<>>
      /\ peer' = [peer EXCEPT ![s] = c]
      /\ backlog' = [backlog EXCEPT ![p] = Tail(@)]
      /\ accepted' = [accepted EXCEPT ![p] = s]
      /\ standby' = [standby EXCEPT ![p] = 0]
      /\ UNCHANGED <<running, to_open, listening, handlers, failed, started, reset>>
  BY DEF accept
<1>2. /\ backlog \in [Ports -> Seq(Clients)] /\ handlers \in Nat
      /\ peer \in Seq(Clients \cup {None}) /\ Len(peer) = handlers
      /\ standby \in [Ports -> Nat] /\ accepted \in [Ports -> Nat]
  BY DEF IInv, Typed
<1>3. /\ s \in Handlers /\ s \in Nat /\ s <= handlers /\ p \in listening
      /\ p \notin failed /\ peer[s] = None /\ s \notin started /\ accepted[p] = 0
  BY <1>1 DEF IInv, Typed, Accepting, StandingBy, Handlers
<1>4. /\ c \in Clients /\ c = backlog[p][1] /\ Len(backlog[p]) \in Nat \ {0}
      /\ backlog'[p] \in Seq(Clients) /\ Len(backlog'[p]) = Len(backlog[p]) - 1
      /\ \A i \in 1 .. Len(backlog[p]) - 1 : backlog'[p][i] = backlog[p][i + 1]
      /\ \A q \in Ports : q # p => backlog'[q] = backlog[q]
      /\ backlog' \in [Ports -> Seq(Clients)]
  <2>1. backlog[p] \in Seq(Clients) /\ backlog'[p] = Tail(backlog[p])
    BY <1>1, <1>2
  <2>2. /\ c \in Clients /\ c = backlog[p][1] /\ Len(backlog[p]) \in Nat \ {0}
        /\ Tail(backlog[p]) \in Seq(Clients)
        /\ Len(Tail(backlog[p])) = Len(backlog[p]) - 1
        /\ \A i \in 1 .. Len(backlog[p]) - 1 : Tail(backlog[p])[i] = backlog[p][i + 1]
    BY <1>1, <2>1
  <2> QED
    BY <1>1, <1>2, <2>1, <2>2
<1> HIDE DEF s, c
<1>5. /\ peer' \in Seq(Clients \cup {None}) /\ Len(peer') = handlers
      /\ peer'[s] = c /\ \A h \in Handlers : h # s => peer'[h] = peer[h]
  BY <1>1, <1>2, <1>3, <1>4 DEF Handlers
<1>6. /\ accepted' \in [Ports -> Nat] /\ accepted'[p] = s
      /\ \A q \in Ports : q # p => accepted'[q] = accepted[q]
      /\ standby' \in [Ports -> Nat] /\ standby'[p] = 0
      /\ \A q \in Ports : q # p => standby'[q] = standby[q]
  BY <1>1, <1>2, <1>3, SMTT(60)
<1>7. Typed'
  <2>1. \A q \in Ports : standby'[q] <= handlers' /\ accepted'[q] <= handlers'
    <3> SUFFICES ASSUME NEW q \in Ports
                 PROVE  standby'[q] <= handlers' /\ accepted'[q] <= handlers'
      OBVIOUS
    <3>1. standby[q] <= handlers /\ accepted[q] <= handlers
      BY DEF IInv, Typed
    <3> QED
      BY <1>1, <1>2, <1>3, <1>6, <3>1
  <2> QED
    BY <1>1, <1>4, <1>5, <1>6, <2>1 DEF IInv, Typed, Handlers
<1>8. Opening' /\ Accepting'
  BY <1>1, <1>3, <1>6 DEF IInv, Opening, Accepting
<1>9. StandingBy'
  <2>1. ASSUME NEW q \in Ports, standby'[q] # 0
        PROVE  peer'[standby'[q]] = None /\ standby'[q] \notin started'
    <3>1. q # p /\ standby'[q] = standby[q] /\ standby[q] # s
      BY <1>1, <1>6, <2>1 DEF IInv, StandingBy, s
    <3>2. standby[q] \in Handlers
      BY <1>2, <2>1, <3>1 DEF IInv, Typed, Handlers
    <3> QED
      BY <1>1, <1>5, <2>1, <3>1, <3>2, SMTT(60) DEF IInv, StandingBy
  <2>2. ASSUME NEW q \in Ports, accepted'[q] # 0, q \notin failed'
        PROVE  peer'[accepted'[q]] # None
    <3>1. CASE q = p
      BY <1>4, <1>5, <1>6, <3>1, AcceptorAssumption, SMTT(60)
    <3>2. CASE q # p
      <4>1. accepted'[q] = accepted[q] /\ accepted[q] \in Handlers
        BY <1>2, <1>6, <2>2, <3>2, SMTT(60) DEF IInv, Typed, Handlers
      <4>2. accepted[q] # s
        BY <1>1, <1>6, <2>2, <3>2, SMTT(60) DEF IInv, StandingBy, s
      <4> QED
        BY <1>1, <1>5, <2>2, <4>1, <4>2 DEF IInv, StandingBy
    <3> QED
      BY <3>1, <3>2, SMTT(60)
  <2>3. ASSUME NEW q \in Ports, NEW r \in Ports, q # r
        PROVE  /\ standby'[q] = standby'[r] => standby'[q] = 0
               /\ accepted'[q] = accepted'[r] => accepted'[q] = 0
               /\ standby'[q] = accepted'[r] => standby'[q] = 0
    <3>1. /\ standby[q] = standby[r] => standby[q] = 0
          /\ accepted[q] = accepted[r] => accepted[q] = 0
          /\ standby[q] = accepted[r] => standby[q] = 0
          /\ standby[r] = accepted[q] => standby[r] = 0
      BY <2>3 DEF IInv, StandingBy
    <3>2. CASE q = p
      BY <1>1, <1>6, <2>3, <3>1, <3>2, SMTT(60) DEF s
    <3>3. CASE r = p
      BY <1>1, <1>6, <2>3, <3>1, <3>3, SMTT(60) DEF s
    <3>4. CASE q # p /\ r # p
      BY <1>6, <3>1, <3>4, SMTT(60)
    <3> QED
      BY <3>2, <3>3, <3>4, SMTT(60)
  <2> QED
    BY <2>1, <2>2, <2>3 DEF StandingBy
<1>10. \A h \in Handlers : peer[h] # c
  BY <1>4 DEF IInv, Queued
<1>11. Serving'
  <2>1. ASSUME NEW h \in started' PROVE peer'[h] # None
    <3>1. h \in started /\ h \in Handlers /\ h # s
      BY <1>1, <1>3 DEF IInv, Typed
    <3> QED
      BY <1>5, <3>1 DEF IInv, Serving
  <2>2. ASSUME NEW g \in Handlers, NEW h \in Handlers, peer'[g] = peer'[h]
        PROVE  g = h \/ peer'[g] = None
    <3>1. CASE g = s
      BY <1>5, <1>10, <2>2, <3>1
    <3>2. CASE h = s
      BY <1>5, <1>10, <2>2, <3>2, SMTT(60)
    <3>3. CASE g # s /\ h # s
      BY <1>5, <2>2, <3>3 DEF IInv, Serving
    <3> QED
      BY <3>1, <3>2, <3>3
  <2> QED
    BY <1>1, <2>1, <2>2 DEF Serving, Handlers
\* The place in its listen queue that an entry had before.
<1>12. ASSUME NEW q \in Ports, NEW i \in 1 .. Len(backlog'[q])
       PROVE  \/ q # p /\ i \in 1 .. Len(backlog[q]) /\ backlog'[q][i] = backlog[q][i]
              \/ /\ q = p /\ i + 1 \in 1 .. Len(backlog[q]) /\ i \in Nat \ {0}
                 /\ backlog'[q][i] = backlog[q][i + 1]
  BY <1>4, <1>12, SMTT(60)
<1>13. Queued'
  <2>1. ASSUME NEW q \in Ports, NEW r \in Ports,
               NEW i \in 1 .. Len(backlog'[q]), NEW j \in 1 .. Len(backlog'[r]),
               backlog'[q][i] = backlog'[r][j]
        PROVE  q = r /\ i = j
    <3>1. \/ q # p /\ i \in 1 .. Len(backlog[q]) /\ backlog'[q][i] = backlog[q][i]
          \/ /\ q = p /\ i + 1 \in 1 .. Len(backlog[q]) /\ i \in Nat \ {0}
             /\ backlog'[q][i] = backlog[q][i + 1]
      BY <1>12
    <3>2. \/ r # p /\ j \in 1 .. Len(backlog[r]) /\ backlog'[r][j] = backlog[r][j]
          \/ /\ r = p /\ j + 1 \in 1 .. Len(backlog[r]) /\ j \in Nat \ {0}
             /\ backlog'[r][j] = backlog[r][j + 1]
      BY <1>12
    <3>3. CASE q # p /\ r # p
      BY <2>1, <3>1, <3>2, <3>3, SMTT(60) DEF IInv, Queued
    <3>4. CASE q = p /\ r = p
      <4>1. i + 1 = j + 1
        BY <2>1, <3>1, <3>2, <3>4, SMTT(60) DEF IInv, Queued
      <4> QED
        BY <3>1, <3>2, <3>4, <4>1, SMTT(60)
    <3>5. CASE ~(q = p <=> r = p)
      BY <2>1, <3>1, <3>2, <3>5 DEF IInv, Queued
    <3> QED
      BY <3>3, <3>4, <3>5
  <2>2. ASSUME NEW q \in Ports, NEW h \in Handlers, NEW i \in 1 .. Len(backlog'[q])
        PROVE  backlog'[q][i] # peer'[h]
    <3>1. \/ q # p /\ i \in 1 .. Len(backlog[q]) /\ backlog'[q][i] = backlog[q][i]
          \/ /\ q = p /\ i + 1 \in 1 .. Len(backlog[q]) /\ i \in Nat \ {0}
             /\ backlog'[q][i] = backlog[q][i + 1]
      BY <1>12, SMTT(60)
    <3>2. CASE h # s
      BY <1>5, <3>1, <3>2, SMTT(60) DEF IInv, Queued
    <3>3. CASE h = s
      <4>1. 1 \in 1 .. Len(backlog[p]) /\ (i \in Nat \ {0} => i + 1 # 1)
        BY <1>4
      <4> QED
        BY <1>4, <1>5, <3>1, <3>3, <4>1, SMTT(60) DEF IInv, Queued
    <3> QED
      BY <3>2, <3>3, SMTT(60)
  <2> QED
    BY <1>1, <2>1, <2>2, Zenon DEF Queued, Handlers
<1> QED
  BY <1>7, <1>8, <1>9, <1>11, <1>13 DEF IInv

\* An accept fails.
LEMMA AcceptFailsKeeps ==
    ASSUME IInv, NEW p \in Ports, accept_fails(p)
    PROVE  IInv'
<1>1. /\ standby[p] # 0 /\ failed' = failed \cup {p}
      /\ accepted' = [accepted EXCEPT ![p] = standby[p]]
      /\ standby' = [standby EXCEPT ![p] = 0]
      /\ UNCHANGED <<running, to_open, listening, handlers, peer, started,
                     backlog, reset>>
  BY DEF accept_fails, clientVars
<1>2. standby \in [Ports -> Nat] /\ accepted \in [Ports -> Nat] /\ handlers \in Nat
  BY DEF IInv, Typed
<1>3. /\ accepted' \in [Ports -> Nat] /\ accepted'[p] = standby[p]
      /\ \A q \in Ports : q # p => accepted'[q] = accepted[q]
      /\ standby' \in [Ports -> Nat] /\ standby'[p] = 0
      /\ \A q \in Ports : q # p => standby'[q] = standby[q]
  BY <1>1, <1>2
<1>4. Typed'
  <2>1. \A q \in Ports : standby'[q] <= handlers' /\ accepted'[q] <= handlers'
    <3> SUFFICES ASSUME NEW q \in Ports
                 PROVE  standby'[q] <= handlers' /\ accepted'[q] <= handlers'
      OBVIOUS
    <3>1. standby[q] <= handlers /\ accepted[q] <= handlers
      BY DEF IInv, Typed
    <3> QED
      BY <1>1, <1>2, <1>3, <3>1, SMTT(60)
  <2> QED
    BY <1>1, <1>3, <2>1 DEF IInv, Typed, Handlers
<1>5. Opening' /\ Accepting'
  BY <1>1, <1>3, SMTT(60) DEF IInv, Opening, Accepting
<1>6. StandingBy'
  <2>1. ASSUME NEW q \in Ports, NEW r \in Ports, q # r
        PROVE  /\ standby'[q] = standby'[r] => standby'[q] = 0
               /\ accepted'[q] = accepted'[r] => accepted'[q] = 0
               /\ standby'[q] = accepted'[r] => standby'[q] = 0
    <3>1. /\ standby[q] = standby[r] => standby[q] = 0
          /\ accepted[q] = accepted[r] => accepted[q] = 0
          /\ standby[q] = accepted[r] => standby[q] = 0
          /\ standby[r] = accepted[q] => standby[r] = 0
      BY <2>1 DEF IInv, StandingBy
    <3>2. CASE q = p
      BY <1>1, <1>3, <2>1, <3>1, <3>2, SMTT(60)
    <3>3. CASE r = p
      BY <1>1, <1>3, <2>1, <3>1, <3>3, SMTT(60)
    <3>4. CASE q # p /\ r # p
      BY <1>3, <3>1, <3>4, SMTT(60)
    <3> QED
      BY <3>2, <3>3, <3>4
  <2>2. ASSUME NEW q \in Ports, standby'[q] # 0
        PROVE  peer'[standby'[q]] = None /\ standby'[q] \notin started'
    BY <1>1, <1>3, <2>2, SMTT(60) DEF IInv, StandingBy
  <2>3. ASSUME NEW q \in Ports, accepted'[q] # 0, q \notin failed'
        PROVE  peer'[accepted'[q]] # None
    BY <1>1, <1>3, <2>3, SMTT(60) DEF IInv, StandingBy
  <2> QED
    BY <2>1, <2>2, <2>3, SMTT(60) DEF StandingBy
<1>7. Serving' /\ Queued'
  BY <1>1 DEF IInv, Serving, Queued, Handlers
<1> QED
  BY <1>4, <1>5, <1>6, <1>7 DEF IInv

\* How the program starts.
LEMMA AcceptorInit == Init => IInv
<1> SUFFICES ASSUME Init PROVE IInv
  OBVIOUS
<1>1. /\ to_open = port_numbers /\ listening = {} /\ handlers = 0
      /\ standby = [p \in Ports |-> 0] /\ accepted = [p \in Ports |-> 0]
      /\ failed = {} /\ backlog = [p \in Ports |-> <<>>] /\ peer = <<>>
      /\ started = {} /\ reset = {}
  BY DEF Init
<1>2. running \in BOOLEAN
  BY DEF Init
<1>3. Typed
  BY <1>1, <1>2, AcceptorAssumption DEF Typed
<1>4. Opening
  <2>1. port_numbers \in Seq(Ports) /\ DOMAIN port_numbers = 1 .. Len(port_numbers)
    BY AcceptorAssumption
  <2> QED
    BY <1>1, <2>1, AcceptorAssumption DEF Opening
<1>5. Accepting /\ StandingBy
  BY <1>1 DEF Accepting, StandingBy
<1>6. Serving /\ Queued
  BY <1>1 DEF Serving, Queued, Handlers
<1> QED
  BY <1>3, <1>4, <1>5, <1>6 DEF IInv

\* Every step keeps the places of the handlers.
LEMMA AcceptorStep == IInv /\ [Next]_vars => IInv'
<1> SUFFICES ASSUME IInv, [Next]_vars PROVE IInv'
  BY SMTT(60)
<1>1. ASSUME NEW c \in Clients, reset_connection(c) PROVE IInv'
  BY <1>1, HandlersUnchanged, SMTT(60) DEF reset_connection, IInv, Typed
<1>2. CASE UNCHANGED vars
  BY <1>2, HandlersUnchanged DEF vars, clientVars, IInv, Typed
<1> QED
  BY <1>1, <1>2, OpenKeeps, AcceptHandlerKeeps, ConnectKeeps, AcceptKeeps,
     AcceptFailsKeeps DEF Next

-----------------------------------------------------------------------------
(* The shared queue.                                                       *)

Messages == [id : Nat, size : Nat \ {0}]

LineBytes == [of : Messages, at : Nat]

QueueTyped ==
    /\ writing \in BOOLEAN
    /\ made \in Nat /\ written \in Nat
    /\ posted \in Seq(Messages) /\ send_packet_queue \in Seq(Messages)
    /\ line \in Seq(LineBytes)

\* How many messages have been written and popped.
Popped == made - Len(posted) - Len(send_packet_queue)

\* The queue holds the messages after those, in order, and the posted calls
\* the ones after that.
Numbered ==
    /\ Popped \in Nat
    /\ \A i \in 1 .. Len(send_packet_queue) : send_packet_queue[i].id = Popped + i
    /\ \A i \in 1 .. Len(posted) :
          posted[i].id = Popped + Len(send_packet_queue) + i

\* A write under way is that of the front message.
WriteOfFront ==
    writing => /\ send_packet_queue # <<>>
               /\ written <= Head(send_packet_queue).size

\* Where the line ends: within the front message if part of it is written, and
\* else with the message popped last.  A queue whose write has failed is never
\* written from again.
EndsWith(b) ==
    IF writing /\ written > 0
    THEN b = Q!Byte(Head(send_packet_queue), written)
    ELSE b.of.id = Popped /\ b.at = b.of.size

LineEnd ==
    writing \/ send_packet_queue = <<>> =>
        IF line = <<>> THEN Popped = 0 /\ (writing => written = 0)
        ELSE EndsWith(line[Len(line)])

QueueInv == QueueTyped /\ Numbered /\ WriteOfFront /\ LineEnd /\ MessagesStayWhole

\* The bytes of a message.
LEMMA ByteTyped ==
    ASSUME NEW m \in Messages, NEW k \in Nat
    PROVE  Q!Byte(m, k) \in LineBytes /\ Q!Byte(m, k).of = m /\ Q!Byte(m, k).at = k
BY DEF Q!Byte, LineBytes

\* read_from_server_done posts the next message.
LEMMA ReadKeeps ==
    ASSUME Sizes \subseteq Nat \ {0}, QueueInv, NEW c \in Conns,
           Q!read_from_server_done(c)
    PROVE  QueueInv'
<1>1. UNCHANGED <<send_packet_queue, writing, written, line>> /\ running' \in BOOLEAN
  BY Zenon DEF Q!read_from_server_done, Q!sendVars, QueueInv, QueueTyped
<1>2. CASE UNCHANGED <<made, posted>>
  <2>1. Popped' = Popped
    BY <1>1, <1>2 DEF Popped
  <2> QED
    BY <1>1, <1>2, <2>1, Zenon DEF QueueInv, QueueTyped, Numbered, WriteOfFront, LineEnd,
       EndsWith, MessagesStayWhole, Q!MessagesStayWhole
<1>3. ASSUME NEW size \in Sizes, Q!serial_port_send_tcp(size) PROVE QueueInv'
  <2> DEFINE m == Q!Message(made + 1, size)
  <2>1. /\ m \in Messages /\ m.id = made + 1
        /\ made \in Nat /\ made' = made + 1 /\ posted' = Append(posted, m)
    BY <1>3 DEF Q!serial_port_send_tcp, Q!Message, Messages, QueueInv, QueueTyped
  <2> HIDE DEF m
  <2>2. /\ posted \in Seq(Messages) /\ Len(posted) \in Nat
        /\ posted' \in Seq(Messages) /\ Len(posted') = Len(posted) + 1
        /\ \A i \in 1 .. Len(posted) + 1 :
              posted'[i] = IF i = Len(posted) + 1 THEN m ELSE posted[i]
    BY <2>1 DEF QueueInv, QueueTyped
  <2>3. Len(send_packet_queue) \in Nat
    BY DEF QueueInv, QueueTyped
  <2>4. Popped' = Popped
    BY <1>1, <2>1, <2>2, <2>3, SMTT(60) DEF Popped
  <2>5. Numbered'
    <3>1. ASSUME NEW i \in 1 .. Len(posted')
          PROVE  posted'[i].id = Popped + Len(send_packet_queue) + i
      <4>1. CASE i = Len(posted) + 1
        BY <2>1, <2>2, <2>3, <4>1, SMTT(60) DEF Popped
      <4>2. CASE i # Len(posted) + 1
        BY <2>2, <3>1, <4>2, SMTT(60) DEF QueueInv, Numbered
      <4> QED
        BY <4>1, <4>2, SMTT(60)
    <3> QED
      BY <1>1, <2>4, <3>1, SMTT(60) DEF QueueInv, Numbered
  <2>6. QueueTyped'
    BY <1>1, <2>1, <2>2 DEF QueueInv, QueueTyped
  <2>7. WriteOfFront' /\ LineEnd'
    BY <1>1, <2>4, SMTT(60) DEF QueueInv, WriteOfFront, LineEnd, EndsWith
  <2>8. MessagesStayWhole'
    BY <1>1 DEF QueueInv, MessagesStayWhole, Q!MessagesStayWhole
  <2> QED
    BY <2>5, <2>6, <2>7, <2>8, SMTT(60) DEF QueueInv
<1> QED
  BY <1>2, <1>3, Zenon DEF Q!read_from_server_done, Q!readVars

\* serial_port_queue_message queues it, and starts the write if it is alone.
LEMMA QueueKeeps ==
    ASSUME QueueInv, Q!serial_port_queue_message
    PROVE  QueueInv'
<1> DEFINE q == send_packet_queue
           m == Head(posted)
<1>1. /\ posted # <<>> /\ posted' = Tail(posted) /\ q' = Append(q, m)
      /\ line' = line /\ made' = made /\ running' = running
  BY DEF Q!serial_port_queue_message, Q!readVars
<1>2. /\ q \in Seq(Messages) /\ Len(q) \in Nat /\ made \in Nat
      /\ posted \in Seq(Messages) /\ Len(posted) \in Nat \ {0}
  BY <1>1 DEF QueueInv, QueueTyped
<1>3. /\ m \in Messages /\ m = posted[1]
      /\ posted' \in Seq(Messages) /\ Len(posted') = Len(posted) - 1
      /\ \A i \in 1 .. Len(posted) - 1 : posted'[i] = posted[i + 1]
  BY <1>1, <1>2
<1>4. /\ q' \in Seq(Messages) /\ Len(q') = Len(q) + 1 /\ q' # <<>>
      /\ \A i \in 1 .. Len(q) + 1 : q'[i] = IF i = Len(q) + 1 THEN m ELSE q[i]
  BY <1>1, <1>2, <1>3
<1> HIDE DEF m
<1>5. Popped' = Popped
  BY <1>1, <1>2, <1>3, <1>4, SMTT(60) DEF Popped
<1>6. Numbered'
  <2>1. /\ Popped \in Nat
        /\ \A i \in 1 .. Len(q) : q[i].id = Popped + i
        /\ \A i \in 1 .. Len(posted) : posted[i].id = Popped + Len(q) + i
    BY DEF QueueInv, Numbered
  <2>2. ASSUME NEW i \in 1 .. Len(q') PROVE q'[i].id = Popped + i
    <3>1. posted[1].id = Popped + Len(q) + 1
      BY <1>2, <2>1, SMTT(60)
    <3>2. CASE i = Len(q) + 1
      BY <1>2, <1>3, <1>4, <2>1, <3>1, <3>2
    <3>3. CASE i # Len(q) + 1
      <4>1. i \in 1 .. Len(q) /\ q'[i] = q[i]
        BY <1>2, <1>4, <2>2, <3>3, SMTT(60)
      <4> QED
        BY <2>1, <4>1, SMTT(60)
    <3> QED
      BY <3>2, <3>3
  <2>3. ASSUME NEW i \in 1 .. Len(posted')
        PROVE  posted'[i].id = Popped + Len(q') + i
    <3>1. i + 1 \in 1 .. Len(posted) /\ posted'[i] = posted[i + 1]
      BY <1>2, <1>3, <2>3
    <3>2. posted[i + 1].id = Popped + Len(q) + (i + 1)
      BY <2>1, <3>1, SMTT(60)
    <3> QED
      BY <1>2, <1>4, <2>1, <2>3, <3>1, <3>2, SMTT(60)
  <2> QED
    BY <1>5, <2>1, <2>2, <2>3, SMTT(60) DEF Numbered
<1>7. CASE q = <<>>
  <2>1. writing' = TRUE /\ written' = 0
    BY <1>7 DEF Q!serial_port_queue_message, Q!serial_port_start_packet_send
  <2>2. ~writing
    BY <1>7 DEF QueueInv, WriteOfFront
  <2>3. Head(q') = m
    BY <1>1, <1>3, <1>7, SMTT(60)
  <2>4. WriteOfFront'
    BY <1>3, <1>4, <2>1, <2>3, SMTT(60) DEF WriteOfFront, Messages
  <2>5. LineEnd'
    BY <1>1, <1>5, <1>7, <2>1, <2>2, SMTT(60) DEF QueueInv, LineEnd, EndsWith
  <2> QED
    BY <1>1, <1>2, <1>3, <1>4, <1>6, <2>1, <2>4, <2>5
       DEF QueueInv, QueueTyped, MessagesStayWhole, Q!MessagesStayWhole
<1>8. CASE q # <<>>
  <2>1. writing' = writing /\ written' = written
    BY <1>8 DEF Q!serial_port_queue_message
  <2>2. Head(q') = Head(q)
    BY <1>2, <1>4, <1>8
  <2>3. WriteOfFront'
    BY <1>4, <2>1, <2>2, SMTT(60) DEF QueueInv, WriteOfFront
  <2>4. LineEnd'
    BY <1>1, <1>4, <1>5, <2>1, <2>2 DEF QueueInv, LineEnd, EndsWith
  <2> QED
    BY <1>1, <1>2, <1>3, <1>4, <1>6, <2>1, <2>3, <2>4
       DEF QueueInv, QueueTyped, MessagesStayWhole, Q!MessagesStayWhole
<1> QED
  BY <1>7, <1>8

\* A partial write goes on where the last one ended.
LEMMA WriteKeeps ==
    ASSUME QueueInv, Q!write_some
    PROVE  QueueInv'
<1> DEFINE q == send_packet_queue
           b == Q!Byte(Head(q), written + 1)
<1>1. /\ writing /\ written < Head(q).size
      /\ line' = Append(line, b) /\ written' = written + 1
      /\ UNCHANGED <<running, made, posted, send_packet_queue, writing>>
  BY DEF Q!write_some, Q!readVars
<1>2. q # <<>> /\ q \in Seq(Messages) /\ Len(q) \in Nat \ {0}
  BY <1>1 DEF QueueInv, QueueTyped, WriteOfFront
<1>3. Head(q) \in Messages /\ Head(q) = q[1] /\ q[1].id = Popped + 1
  BY <1>2 DEF QueueInv, Numbered
<1>4. b \in LineBytes /\ b.of = Head(q) /\ b.at = written + 1 /\ written \in Nat
  BY <1>3, ByteTyped, SMTT(60) DEF QueueInv, QueueTyped
<1> HIDE DEF b
<1>5. /\ line \in Seq(LineBytes) /\ Len(line) \in Nat
      /\ line' \in Seq(LineBytes) /\ Len(line') = Len(line) + 1
      /\ \A i \in 1 .. Len(line) + 1 :
            line'[i] = IF i = Len(line) + 1 THEN b ELSE line[i]
  BY <1>1, <1>4 DEF QueueInv, QueueTyped
<1>6. Popped' = Popped
  BY <1>1 DEF Popped
<1>7. line = <<>> => b.of.id = 1 /\ b.at = 1
  BY <1>1, <1>3, <1>4 DEF QueueInv, LineEnd
<1>8. ASSUME line # <<>> PROVE Q!Follows(b, line[Len(line)])
  <2>1. EndsWith(line[Len(line)]) /\ line[Len(line)] \in LineBytes
    BY <1>1, <1>5, <1>8, SMTT(60) DEF QueueInv, LineEnd
  <2>2. CASE written > 0
    <3>1. line[Len(line)] = Q!Byte(Head(q), written)
      BY <1>1, <2>1, <2>2, SMTT(60) DEF EndsWith
    <3>2. line[Len(line)].of = Head(q) /\ line[Len(line)].at = written
      BY <1>3, <1>4, <3>1, ByteTyped
    <3>3. Head(q).size \in Nat
      BY <1>3, SMTT(60) DEF Messages
    <3> QED
      BY <1>1, <1>4, <3>2, <3>3, SMTT(60) DEF Q!Follows
  <2>3. CASE written = 0
    BY <1>1, <1>3, <1>4, <2>1, <2>3, SMTT(60) DEF EndsWith, Q!Follows
  <2> QED
    BY <1>4, <2>2, <2>3
<1>9. MessagesStayWhole'
  <2>1. line'[1].of.id = 1 /\ line'[1].at = 1
    <3>1. CASE line = <<>>
      BY <1>5, <1>7, <3>1
    <3>2. CASE line # <<>>
      <4>1. line'[1] = line[1]
        BY <1>5, <3>2
      <4> QED
        BY <3>2, <4>1 DEF QueueInv, MessagesStayWhole, Q!MessagesStayWhole
    <3> QED
      BY <3>1, <3>2
  <2>2. ASSUME NEW i \in 1 .. Len(line') - 1 PROVE Q!Follows(line'[i + 1], line'[i])
    <3>1. i \in 1 .. Len(line) /\ i + 1 \in 1 .. Len(line) + 1
      BY <1>5, <2>2
    <3>2. line'[i] = line[i]
      BY <1>5, <3>1
    <3>3. CASE i = Len(line)
      <4>1. line'[i + 1] = b /\ line # <<>>
        BY <1>5, <3>1, <3>3
      <4> QED
        BY <1>8, <3>2, <3>3, <4>1
    <3>4. CASE i # Len(line)
      <4>1. line'[i + 1] = line[i + 1] /\ i \in 1 .. Len(line) - 1
        BY <1>5, <3>1, <3>4, SMTT(60)
      <4> QED
        BY <3>2, <4>1, SMTT(60) DEF QueueInv, MessagesStayWhole, Q!MessagesStayWhole
    <3> QED
      BY <3>3, <3>4
  <2> QED
    BY <2>1, <2>2, SMTT(60) DEF MessagesStayWhole, Q!MessagesStayWhole
<1>10. LineEnd'
  <2>1. line'[Len(line')] = b /\ line' # <<>>
    BY <1>5
  <2>2. b = Q!Byte(Head(q), written')
    BY <1>1 DEF b
  <2> QED
    BY <1>1, <1>4, <2>1, <2>2 DEF LineEnd, EndsWith
<1>11. WriteOfFront'
  <2>1. Head(q).size \in Nat
    BY <1>3 DEF Messages
  <2> QED
    BY <1>1, <1>2, <1>4, <2>1, SMTT(60) DEF WriteOfFront
<1>12. QueueTyped' /\ Numbered'
  BY <1>1, <1>4, <1>5, <1>6, SMTT(60) DEF QueueInv, QueueTyped, Numbered
<1> QED
  BY <1>9, <1>10, <1>11, <1>12 DEF QueueInv

\* serial_port_packet_send_done goes on with the next message, or stops for good.
LEMMA DoneKeeps ==
    ASSUME QueueInv, Q!serial_port_packet_send_done
    PROVE  QueueInv'
<1> DEFINE q == send_packet_queue
<1>1. writing /\ UNCHANGED <<running, made, posted, line>>
  BY DEF Q!serial_port_packet_send_done, Q!readVars
<1>2. /\ q # <<>> /\ q \in Seq(Messages) /\ Len(q) \in Nat \ {0}
      /\ Head(q) \in Messages /\ Head(q) = q[1] /\ q[1].id = Popped + 1
      /\ Len(posted) \in Nat /\ made \in Nat
  <2>1. q # <<>> /\ q \in Seq(Messages) /\ Len(q) \in Nat \ {0}
    BY <1>1 DEF QueueInv, QueueTyped, WriteOfFront
  <2> QED
    BY <2>1 DEF QueueInv, QueueTyped, Numbered
<1>3. ASSUME written = Head(q).size, q' = Tail(q),
             \/ q' # <<>> /\ writing' = TRUE /\ written' = 0
             \/ q' = <<>> /\ writing' = FALSE /\ written' = written
      PROVE  QueueInv'
  <2>1. /\ q' \in Seq(Messages) /\ Len(q') = Len(q) - 1
        /\ \A i \in 1 .. Len(q) - 1 : q'[i] = q[i + 1]
    BY <1>2, <1>3, SMTT(60)
  <2>2. Popped' = Popped + 1 /\ Popped \in Nat
    BY <1>1, <1>2, <2>1, SMTT(60) DEF Popped, QueueInv, Numbered
  <2>3. Numbered'
    <3>1. ASSUME NEW i \in 1 .. Len(q') PROVE q'[i].id = Popped + 1 + i
      <4>1. i + 1 \in 1 .. Len(q) /\ q'[i] = q[i + 1]
        BY <1>2, <2>1, <3>1, SMTT(60)
      <4>2. q[i + 1].id = Popped + (i + 1)
        BY <4>1 DEF QueueInv, Numbered
      <4> QED
        BY <2>2, <3>1, <4>1, <4>2, SMTT(60)
    <3>2. ASSUME NEW i \in 1 .. Len(posted)
          PROVE  posted[i].id = Popped + 1 + Len(q') + i
      <4>1. posted[i].id = Popped + Len(q) + i
        BY <3>2 DEF QueueInv, Numbered
      <4> QED
        BY <1>2, <2>1, <2>2, <3>2, <4>1, SMTT(60)
    <3> QED
      BY <1>1, <2>2, <3>1, <3>2, SMTT(60) DEF Numbered
  <2>4. written > 0 /\ written \in Nat
    BY <1>2, <1>3, SMTT(60) DEF QueueInv, QueueTyped, Messages
  <2>5. line # <<>> /\ line[Len(line)] = Q!Byte(Head(q), written)
    BY <1>1, <2>4, SMTT(60) DEF QueueInv, LineEnd, EndsWith
  <2>6. line[Len(line)].of.id = Popped' /\ line[Len(line)].at = line[Len(line)].of.size
    BY <1>2, <1>3, <2>2, <2>4, <2>5, ByteTyped, SMTT(60)
  <2>7. LineEnd'
    BY <1>1, <1>3, <2>5, <2>6 DEF LineEnd, EndsWith
  <2>8. WriteOfFront'
    <3>1. CASE q' # <<>>
      <4>1. Head(q') \in Messages
        BY <2>1, <3>1
      <4> QED
        BY <1>3, <3>1, <4>1 DEF WriteOfFront, Messages
    <3> QED
      BY <1>3, <3>1 DEF WriteOfFront
  <2>9. written' \in Nat /\ writing' \in BOOLEAN
    <3>1. writing' \in BOOLEAN
      BY <1>3, Zenon
    <3>2. written' = 0 \/ written' = written
      BY <1>3
    <3> QED
      BY <2>4, <3>1, <3>2
  <2>10. QueueTyped'
    BY <1>1, <2>1, <2>9 DEF QueueInv, QueueTyped
  <2>11. MessagesStayWhole'
    BY <1>1 DEF QueueInv, MessagesStayWhole, Q!MessagesStayWhole
  <2> QED
    BY <2>3, <2>7, <2>8, <2>10, <2>11 DEF QueueInv
<1>4. ASSUME q' = q, writing' = FALSE, written' = written
      PROVE  QueueInv'
  <2>1. Popped' = Popped
    BY <1>1, <1>4, SMTT(60) DEF Popped
  <2> QED
    BY <1>1, <1>2, <1>4, <2>1, Zenon DEF QueueInv, QueueTyped, Numbered, WriteOfFront, LineEnd,
       MessagesStayWhole, Q!MessagesStayWhole
<1> QED
  BY <1>3, <1>4, ZenonT(60) DEF Q!serial_port_packet_send_done, Q!serial_port_start_packet_send

\* Steps of the acceptors.
LEMMA QueueUnchanged ==
    ASSUME QueueInv,
           UNCHANGED <<made, posted, send_packet_queue, writing, written, line>>
    PROVE  QueueInv'
<1>1. Popped' = Popped
  BY SMTT(60) DEF Popped
<1> QED
  BY <1>1 DEF QueueInv, QueueTyped, Numbered, WriteOfFront, LineEnd, EndsWith,
     MessagesStayWhole, Q!MessagesStayWhole

\* How the queue starts.
LEMMA QueueInit == Q!Init => QueueInv
<1> SUFFICES ASSUME Q!Init PROVE QueueInv
  OBVIOUS
<1>1. running \in BOOLEAN /\ writing \in BOOLEAN
  BY Zenon DEF Q!Init
<1>2. /\ made = 0 /\ written = 0 /\ posted = <<>>
      /\ send_packet_queue = <<>> /\ line = <<>> /\ ~writing
  BY DEF Q!Init
<1>3. QueueTyped
  BY <1>1, <1>2 DEF QueueTyped
<1>4. Popped = 0
  <2>1. made = 0 /\ Len(posted) = 0 /\ Len(send_packet_queue) = 0
    BY <1>2
  <2>2. made - Len(posted) - Len(send_packet_queue) = 0
    BY <2>1, SMT
  <2> QED
    BY <2>2 DEF Popped
<1> QED
  BY <1>2, <1>3, <1>4 DEF QueueInv, Numbered, WriteOfFront, LineEnd,
     MessagesStayWhole, Q!MessagesStayWhole

\* Every step of the queue.
LEMMA QueueStep ==
    ASSUME Sizes \subseteq Nat \ {0}
    PROVE  QueueInv /\ [Q!Next]_(Q!vars) => QueueInv'
<1> SUFFICES ASSUME QueueInv, [Q!Next]_(Q!vars) PROVE QueueInv'
  OBVIOUS
<1>1. CASE UNCHANGED Q!vars
  BY <1>1, QueueUnchanged DEF Q!vars, Q!readVars, Q!sendVars
<1> QED
  BY <1>1, ReadKeeps, QueueKeeps, WriteKeeps, DoneKeeps DEF Q!Next

-----------------------------------------------------------------------------
(* The two together.                                                       *)

\* A step of the queue changes of the acceptors only whether the program still
\* runs.
LEMMA DaemonKeepsAcceptors == IInv /\ [DaemonNext]_allVars => IInv'
<1> SUFFICES ASSUME IInv, [DaemonNext]_allVars PROVE IInv'
  OBVIOUS
<1>1. CASE [Next]_vars
  BY <1>1, AcceptorStep, SMTT(60)
<1>2. CASE Q!Next /\ UNCHANGED acceptorVars
  <2>1. running' \in BOOLEAN
    BY <1>2, Zenon DEF Q!Next, Q!read_from_server_done, Q!serial_port_queue_message,
       Q!write_some, Q!serial_port_packet_send_done, IInv, Typed
  <2> QED
    BY <1>2, <2>1, HandlersUnchanged, SMTT(60) DEF acceptorVars, clientVars, IInv, Typed
<1> QED
  BY <1>1, <1>2 DEF DaemonNext, allVars

\* A step of the acceptors leaves the queue alone.
LEMMA DaemonKeepsQueue ==
    ASSUME Sizes \subseteq Nat \ {0}
    PROVE  QueueInv /\ [DaemonNext]_allVars => QueueInv'
<1> SUFFICES ASSUME QueueInv, [DaemonNext]_allVars PROVE QueueInv'
  OBVIOUS
<1>1. CASE UNCHANGED queueVars
  BY <1>1, QueueUnchanged DEF queueVars
<1>2. CASE Q!Next
  BY <1>2, QueueStep
<1> QED
  BY <1>1, <1>2 DEF DaemonNext, allVars

\* Every open port has its accept.
LEMMA AcceptsInvariant == IInv => OneAcceptPerPort
BY DEF IInv, Typed, Accepting, OneAcceptPerPort

\* No handler has two clients, and no client two handlers.
LEMMA HandlersInvariant == IInv => OwnHandler
<1> SUFFICES ASSUME IInv PROVE OwnHandler
  BY SMTT(60)
<1>1. ASSUME NEW p \in listening, NEW q \in listening, p # q
      PROVE  {standby[p], accepted[p]} \cap {standby[q], accepted[q]} \subseteq {0}
  <2>1. p \in Ports /\ q \in Ports
    BY SMTT(60) DEF IInv, Typed
  <2>2. /\ standby[p] = standby[q] => standby[p] = 0
        /\ accepted[p] = accepted[q] => accepted[p] = 0
        /\ standby[p] = accepted[q] => standby[p] = 0
        /\ standby[q] = accepted[p] => standby[q] = 0
    BY <1>1, <2>1 DEF IInv, StandingBy
  <2> QED
    BY <2>2, SMTT(60)
<1> QED
  BY <1>1 DEF IInv, Typed, StandingBy, Serving, OwnHandler

\* The invariant behind the two theorems below holds in every state, of the
\* acceptors alone and of the acceptors beside the queue.
THEOREM Invariance ==
    /\ Spec => []IInv
    /\ DaemonSpec => []IInv
<1>1. Spec => []IInv
  BY AcceptorInit, AcceptorStep, PTL DEF Spec
<1>2. DaemonInit => IInv
  BY AcceptorInit DEF DaemonInit
<1>3. DaemonSpec => []IInv
  BY <1>2, DaemonKeepsAcceptors, PTL DEF DaemonSpec
<1> QED
  BY <1>1, <1>3

\* tcp_server_accept_handler keeps one accept under way at every open port, for
\* ever unless one fails, whatever the client connections do beside it.
THEOREM AcceptsCorrect ==
    /\ Spec => []OneAcceptPerPort
    /\ DaemonSpec => []OneAcceptPerPort
BY Invariance, AcceptsInvariant, PTL

\* Every connection that tcp_server_accept_handler starts has a handler of its
\* own, whatever ports and clients there are and however they interleave.
THEOREM HandlersCorrect ==
    /\ Spec => []OwnHandler
    /\ DaemonSpec => []OwnHandler
BY Invariance, HandlersInvariant, PTL

\* The shared queue never mixes, repeats or skips messages of the connections
\* that send at once, whatever they do, whichever writes fail and whenever a
\* handler of an acceptor ends the program.
THEOREM WholeMessages ==
    ASSUME Sizes \subseteq Nat \ {0}
    PROVE  /\ Q!Spec => []MessagesStayWhole
           /\ DaemonSpec => []MessagesStayWhole
<1>1. QueueInv => MessagesStayWhole
  BY DEF QueueInv
<1>2. Q!Spec => []MessagesStayWhole
  BY <1>1, QueueInit, QueueStep, PTL DEF Q!Spec
<1>3. DaemonInit => QueueInv
  BY QueueInit DEF DaemonInit
<1>4. DaemonSpec => []MessagesStayWhole
  BY <1>1, <1>3, DaemonKeepsQueue, PTL DEF DaemonSpec
<1> QED
  BY <1>2, <1>4

-----------------------------------------------------------------------------
(* serial_port_tick.                                                       *)

Bytes == Seq(Nat)

\* A tick waits on an operation exactly while it is outstanding, so that its
\* buffer is filled again only when the operating system has done with it and
\* the tick has seen it.
RInv ==
    /\ to_come \in Bytes /\ read_buffer \in Bytes
    /\ output_byte_queue \in Bytes /\ taken \in Bytes
    /\ oRead \in {"idle", "pending", "signaled"}
    /\ waiting_on_read <=> oRead # "idle"
    /\ ReceivedInOrder

WInv ==
    /\ to_give \in Seq(Bytes) /\ write_buffer \in Bytes
    /\ input_byte_queue \in Bytes /\ given \in Bytes /\ finished \in Bytes
    /\ oWrite \in {"idle", "pending", "signaled"}
    /\ waiting_on_write <=> oWrite # "idle"
    /\ WrittenInOrder

-----------------------------------------------------------------------------
(* Sequences of bytes.                                                     *)

\* Three strings of bytes one after the other.
LEMMA Assoc ==
    ASSUME NEW a \in Bytes, NEW b \in Bytes, NEW c \in Bytes
    PROVE  (a \o b) \o c = a \o (b \o c)
BY ConcatAssociative, SMTT(60) DEF Bytes

\* Two strings of bytes one after the other.
LEMMA ConcatBytes ==
    ASSUME NEW a \in Bytes, NEW b \in Bytes
    PROVE  /\ a \o b \in Bytes
           /\ a \o <<>> = a
BY ConcatProperties, ConcatEmptySeq DEF Bytes

\* Taking the first n bytes and leaving the rest.
LEMMA Split ==
    ASSUME NEW q \in Bytes, NEW n \in 0 .. Len(q)
    PROVE  /\ SubSeq(q, 1, n) \in Bytes /\ Drop(q, n) \in Bytes
           /\ SubSeq(q, 1, n) \o Drop(q, n) = q
<1> DEFINE a == SubSeq(q, 1, n)
           b == SubSeq(q, n + 1, Len(q))
<1>1. /\ a \in Bytes /\ Len(a) = n /\ \A i \in 1 .. n : a[i] = q[i]
  BY SMTT(60) DEF Bytes
<1>2. /\ b \in Bytes /\ Len(b) = Len(q) - n
      /\ \A i \in 1 .. Len(q) - n : b[i] = q[i + n]
  <2>1. q \in Seq(Nat) /\ Len(q) \in Nat /\ n \in Nat /\ n <= Len(q)
    BY DEF Bytes
  <2>2. \A i \in n + 1 .. Len(q) : q[i] \in Nat
    BY <2>1, SMTT(60)
  <2>3. /\ b \in Seq(Nat)
        /\ Len(b) = IF n + 1 <= Len(q) THEN Len(q) - (n + 1) + 1 ELSE 0
        /\ \A i \in 1 .. Len(q) - (n + 1) + 1 : b[i] = q[n + 1 + i - 1]
    BY <2>1, <2>2, SubSeqProperties, SMTT(60)
  <2> HIDE DEF b
  <2>4. Len(b) = Len(q) - n
    BY <2>1, <2>3, SMTT(60)
  <2>5. ASSUME NEW i \in 1 .. Len(q) - n PROVE b[i] = q[i + n]
    <3>1. i \in 1 .. Len(q) - (n + 1) + 1 /\ n + 1 + i - 1 = i + n
      BY <2>1, <2>5
    <3> QED
      BY <2>3, <3>1
  <2> QED
    BY <2>3, <2>4, <2>5 DEF Bytes
<1> HIDE DEF a, b
<1>3. Len(q) \in Nat
  BY SMTT(60) DEF Bytes
<1>4. /\ a \o b \in Bytes /\ Len(a \o b) = Len(q)
      /\ \A i \in 1 .. Len(q) : (a \o b)[i] = IF i <= n THEN a[i] ELSE b[i - n]
  <2>1. /\ a \o b \in Seq(Nat) /\ Len(a \o b) = Len(a) + Len(b)
        /\ \A i \in 1 .. Len(a) + Len(b) :
              (a \o b)[i] = IF i <= Len(a) THEN a[i] ELSE b[i - Len(a)]
    BY <1>1, <1>2, ConcatProperties, SMTT(60) DEF Bytes
  <2>2. Len(a) + Len(b) = Len(q)
    BY <1>1, <1>2, <1>3
  <2> QED
    BY <1>1, <2>1, <2>2, SMTT(60) DEF Bytes
<1>5. ASSUME NEW i \in 1 .. Len(q) PROVE (a \o b)[i] = q[i]
  <2>1. CASE i <= n
    BY <1>1, <1>4, <2>1, SMTT(60)
  <2>2. CASE ~(i <= n)
    <3>1. i - n \in 1 .. Len(q) - n /\ (i - n) + n = i
      BY <1>3, <2>2, SMTT(60)
    <3> QED
      BY <1>2, <1>4, <2>2, <3>1
  <2> QED
    BY <2>1, <2>2, Zenon
<1>6. a \o b = q
  BY <1>4, <1>5, SeqEqual, Zenon DEF Bytes
<1>7. a = SubSeq(q, 1, n) /\ b = Drop(q, n)
  BY DEF a, b, Drop
<1> QED
  BY <1>1, <1>2, <1>6, <1>7

-----------------------------------------------------------------------------
(* serial_port_tick: reading.                                              *)

\* Steps of the other direction.
LEMMA ReadingUnchanged ==
    ASSUME RInv, UNCHANGED <<readVars, output_byte_queue, taken>>
    PROVE  RInv'
BY DEF RInv, readVars, ReceivedInOrder

\* serial_port_read hands out what has been collected.
LEMMA TakeKeeps ==
    ASSUME RInv, serial_port_read
    PROVE  RInv'
<1> DEFINE held == IF oRead = "signaled" THEN read_buffer ELSE <<>>
<1>1. /\ taken' = taken \o output_byte_queue /\ output_byte_queue' = <<>>
      /\ UNCHANGED <<to_come, oRead, read_buffer, waiting_on_read>>
  BY DEF serial_port_read, readVars
<1>2. /\ taken \in Bytes /\ output_byte_queue \in Bytes /\ held \in Bytes
      /\ taken' \in Bytes /\ <<>> \in Bytes
  BY <1>1, ConcatBytes DEF RInv, Bytes
<1>3. taken' \o output_byte_queue' = taken \o output_byte_queue
  BY <1>1, <1>2, ConcatBytes
<1>4. ReceivedInOrder'
  BY <1>1, <1>3 DEF RInv, ReceivedInOrder
<1> QED
  BY <1>1, <1>2, <1>4 DEF RInv

\* A read returns no more bytes than have come.
LEMMA ReadCounts ==
    ASSUME RInv, NEW n \in 0 .. Least(ReadChunk, Len(to_come))
    PROVE  n \in 0 .. Len(to_come)
<1>1. Len(to_come) \in Nat
  BY DEF RInv, Bytes
<1> QED
  BY <1>1, TickAssumptions DEF Least

\* Bytes that arrive stay behind the ones that are waiting to be taken.
LEMMA ReadCompletesKeeps ==
    ASSUME RInv, ReadCompletes
    PROVE  RInv'
<1>1. PICK n \in 0 .. Len(to_come) :
         read_buffer' = SubSeq(to_come, 1, n) /\ to_come' = Drop(to_come, n)
  BY ReadCounts, Zenon DEF ReadCompletes
<1>2. /\ oRead = "pending" /\ oRead' = "signaled"
      /\ UNCHANGED <<output_byte_queue, taken, waiting_on_read>>
  BY DEF ReadCompletes
<1>3. /\ read_buffer' \in Bytes /\ to_come' \in Bytes
      /\ read_buffer' \o to_come' = to_come
  BY <1>1, Split DEF RInv
<1>4. /\ taken \o output_byte_queue \in Bytes /\ <<>> \in Bytes
      /\ (taken \o output_byte_queue) \o <<>> = taken \o output_byte_queue
  <2>1. taken \o output_byte_queue \in Bytes
    BY ConcatBytes DEF RInv
  <2> QED
    BY <2>1, ConcatBytes DEF Bytes
<1>5. Incoming = (taken \o output_byte_queue) \o to_come
  BY <1>2, <1>4 DEF RInv, ReceivedInOrder
<1>6. Incoming = ((taken \o output_byte_queue) \o read_buffer') \o to_come'
  <2>1. ((taken \o output_byte_queue) \o read_buffer') \o to_come'
           = (taken \o output_byte_queue) \o (read_buffer' \o to_come')
    BY <1>3, <1>4, Assoc, Zenon
  <2> QED
    BY <1>3, <1>5, <2>1
<1>7. ReceivedInOrder'
  BY <1>2, <1>6 DEF ReceivedInOrder
<1> QED
  BY <1>2, <1>3, <1>7 DEF RInv

\* A tick starts a read only when none is outstanding.
LEMMA StartReadKeeps ==
    ASSUME RInv, start_read, UNCHANGED taken
    PROVE  RInv'
<1>1. CASE UNCHANGED <<readVars, output_byte_queue>>
  BY <1>1, ReadingUnchanged
<1>2. /\ taken \o output_byte_queue \in Bytes /\ <<>> \in Bytes
      /\ (taken \o output_byte_queue) \o <<>> = taken \o output_byte_queue
  <2>1. taken \o output_byte_queue \in Bytes
    BY ConcatBytes DEF RInv
  <2> QED
    BY <2>1, ConcatBytes DEF Bytes
<1>3. oRead = "idle" => Incoming = (taken \o output_byte_queue) \o to_come
  BY <1>2, SMTT(60) DEF RInv, ReceivedInOrder
<1>4. ASSUME ~waiting_on_read, NEW n \in 0 .. Len(to_come),
             read_buffer' = SubSeq(to_come, 1, n), to_come' = Drop(to_come, n),
             output_byte_queue' = output_byte_queue \o SubSeq(to_come, 1, n),
             oRead' = "idle", UNCHANGED waiting_on_read
      PROVE  RInv'
  <2> DEFINE new == SubSeq(to_come, 1, n)
  <2>1. new \in Bytes /\ to_come' \in Bytes /\ new \o to_come' = to_come
    BY <1>4, Split, Zenon DEF RInv
  <2> HIDE DEF new
  <2>2. output_byte_queue' = output_byte_queue \o new /\ read_buffer' = new
    BY <1>4 DEF new
  <2>3. /\ output_byte_queue' \in Bytes
        /\ taken \o output_byte_queue' = (taken \o output_byte_queue) \o new
    <3>1. output_byte_queue \in Bytes /\ taken \in Bytes /\ new \in Bytes
      BY <2>1 DEF RInv
    <3>2. output_byte_queue \o new \in Bytes
      BY <3>1, ConcatBytes
    <3>3. (taken \o output_byte_queue) \o new = taken \o (output_byte_queue \o new)
      BY <3>1, Assoc, SMTT(60)
    <3> QED
      BY <2>2, <3>2, <3>3
  <2>4. /\ taken \o output_byte_queue' \in Bytes
        /\ (taken \o output_byte_queue') \o <<>> = taken \o output_byte_queue'
    <3>1. taken \o output_byte_queue' \in Bytes
      BY <2>3, ConcatBytes, Zenon DEF RInv
    <3> QED
      BY <1>2, <3>1, ConcatBytes
  <2>5. Incoming = (taken \o output_byte_queue') \o to_come'
    <3>1. Incoming = (taken \o output_byte_queue) \o (new \o to_come')
      BY <1>3, <1>4, <2>1 DEF RInv
    <3>2. Incoming = ((taken \o output_byte_queue) \o new) \o to_come'
      BY <1>2, <2>1, <3>1, Assoc, Zenon
    <3> QED
      BY <2>3, <3>2
  <2>6. ReceivedInOrder'
    BY <1>4, <2>4, <2>5 DEF ReceivedInOrder
  <2> QED
    BY <1>4, <2>1, <2>2, <2>3, <2>6, Zenon DEF RInv
<1>5. ASSUME ~waiting_on_read, oRead' = "pending", read_buffer' = <<>>,
             waiting_on_read' = TRUE, UNCHANGED <<to_come, output_byte_queue>>
      PROVE  RInv'
  BY <1>2, <1>5, Zenon DEF RInv, ReceivedInOrder
<1> QED
  BY <1>1, <1>4, <1>5, ReadCounts, Zenon DEF start_read

\* A tick copies what a completed read has brought, once.
LEMMA TickReadKeeps ==
    ASSUME RInv, TickRead
    PROVE  RInv'
<1>1. /\ oRead = "signaled" /\ UNCHANGED <<taken, to_come, read_buffer>>
  BY DEF TickRead, ReadSeen
<1>2. CASE UNCHANGED <<output_byte_queue, oRead, waiting_on_read>>
  BY <1>1, <1>2 DEF RInv, ReceivedInOrder
<1>3. ASSUME output_byte_queue' = output_byte_queue \o read_buffer,
             oRead' = "idle", waiting_on_read' = FALSE
      PROVE  RInv'
  <2>1. /\ output_byte_queue' \in Bytes /\ <<>> \in Bytes
        /\ taken \o output_byte_queue' = (taken \o output_byte_queue) \o read_buffer
    <3>1. output_byte_queue \in Bytes /\ taken \in Bytes /\ read_buffer \in Bytes
      BY DEF RInv
    <3>2. output_byte_queue \o read_buffer \in Bytes
      BY <3>1, ConcatBytes
    <3>3. (taken \o output_byte_queue) \o read_buffer = taken \o (output_byte_queue \o read_buffer)
      BY <3>1, Assoc, SMTT(60)
    <3> QED
      BY <1>3, <3>2, <3>3 DEF Bytes
  <2>2. /\ taken \o output_byte_queue' \in Bytes
        /\ (taken \o output_byte_queue') \o <<>> = taken \o output_byte_queue'
    <3>1. taken \o output_byte_queue' \in Bytes
      BY <2>1, ConcatBytes DEF RInv
    <3> QED
      BY <2>1, <3>1, ConcatBytes
  <2>3. ReceivedInOrder'
    BY <1>1, <1>3, <2>1, <2>2 DEF RInv, ReceivedInOrder
  <2> QED
    BY <1>1, <1>3, <2>1, <2>3 DEF RInv
<1> QED
  BY <1>2, <1>3, Zenon DEF TickRead

\* However the operating system completes reads and the program calls, every
\* byte that has arrived is in one place, in order.
THEOREM ReadingCorrect == TickSpec => []ReceivedInOrder
<1>1. TickInit => RInv
  <2> SUFFICES ASSUME TickInit PROVE RInv
    OBVIOUS
  <2>1. /\ to_come = Incoming /\ oRead = "idle" /\ read_buffer = <<>>
        /\ output_byte_queue = <<>> /\ taken = <<>> /\ waiting_on_read = FALSE
    BY DEF TickInit
  <2>2. Incoming \in Bytes /\ <<>> \in Bytes
    BY TickAssumptions DEF Bytes
  <2>3. <<>> \o <<>> = <<>> /\ <<>> \o Incoming = Incoming
    BY <2>2, ConcatEmptySeq DEF Bytes
  <2>4. ReceivedInOrder
    BY <2>1, <2>3 DEF ReceivedInOrder
  <2> QED
    BY <2>1, <2>2, <2>4, SMTT(60) DEF RInv
<1>2. RInv /\ [TickNext]_tickVars => RInv'
  <2> SUFFICES ASSUME RInv, [TickNext]_tickVars PROVE RInv'
    OBVIOUS
  <2>1. CASE \/ serial_port_write \/ WriteCompletes \/ UNCHANGED tickVars
             \/ serial_port_init \/ serial_port_open
    BY <2>1, ReadingUnchanged DEF serial_port_write, WriteCompletes, tickVars,
       serial_port_init, serial_port_open
  <2>2. CASE tick_start
    BY <2>2, StartReadKeeps, SMTT(60) DEF tick_start
  <2>3. CASE tick_wait
    BY <2>3, TickReadKeeps, ReadingUnchanged DEF tick_wait, TickWrite, TickNothing
  <2> QED
    BY <2>1, <2>2, <2>3, TakeKeeps, ReadCompletesKeeps, SMTT(60) DEF TickNext
<1>3. RInv => ReceivedInOrder
  BY DEF RInv
<1> QED
  BY <1>1, <1>2, <1>3, PTL DEF TickSpec

-----------------------------------------------------------------------------
(* serial_port_tick: writing.                                              *)

\* The bytes the operating system still has to take from the write_buffer.
Held == IF oWrite = "pending" THEN write_buffer ELSE <<>>

\* Steps of the other direction.
LEMMA WritingUnchanged ==
    ASSUME WInv, UNCHANGED <<writeVars, to_give, given>>
    PROVE  WInv'
BY DEF WInv, writeVars, WrittenInOrder

\* What has been handed over and not gone out.
LEMMA HeldBytes ==
    ASSUME WInv
    PROVE  Held \in Bytes /\ <<>> \in Bytes /\ finished \o Held \in Bytes
<1>1. Held \in Bytes /\ <<>> \in Bytes
  BY SMTT(60) DEF WInv, Held, Bytes
<1> QED
  BY <1>1, ConcatBytes DEF WInv

\* serial_port_write adds to what is to go out.
LEMMA GiveKeeps ==
    ASSUME WInv, serial_port_write
    PROVE  WInv'
<1> DEFINE new == Head(to_give)
<1>1. /\ to_give # <<>> /\ to_give' = Tail(to_give)
      /\ input_byte_queue' = input_byte_queue \o new /\ given' = given \o new
      /\ UNCHANGED <<oWrite, write_buffer, waiting_on_write, finished, missing>>
  BY DEF serial_port_write
<1>2. new \in Bytes /\ to_give' \in Seq(Bytes)
  BY <1>1 DEF WInv
<1> HIDE DEF new
<1>3. input_byte_queue' \in Bytes /\ given' \in Bytes
  BY <1>1, <1>2, ConcatBytes DEF WInv
<1>4. ASSUME given = (finished \o Held) \o input_byte_queue
      PROVE  given' = (finished \o Held) \o input_byte_queue'
  <2>1. input_byte_queue \in Bytes /\ finished \o Held \in Bytes
    BY HeldBytes DEF WInv
  <2>2. ((finished \o Held) \o input_byte_queue) \o new
           = (finished \o Held) \o (input_byte_queue \o new)
    BY <1>2, <2>1, Assoc, SMTT(60)
  <2> QED
    BY <1>1, <1>4, <2>2
<1>5. WrittenInOrder'
  BY <1>1, <1>4, Zenon DEF WInv, WrittenInOrder, Held
<1> QED
  BY <1>1, <1>2, <1>3, <1>5, SMTT(60) DEF WInv

\* A write that comes back joins the finished ones, whatever it has written.
LEMMA FinishKeeps ==
    ASSUME WInv, NEW bytes \in Bytes, NEW n \in 0 .. Len(bytes), finish(bytes, n)
    PROVE  /\ finished' = finished \o bytes /\ finished' \in Bytes
           /\ finished' \o <<>> = finished'
           /\ missing' \subseteq DOMAIN finished'
<1>1. finished \in Bytes /\ finished' = finished \o bytes /\ finished' \in Bytes
  BY ConcatBytes DEF WInv, finish
<1>2. finished' \o <<>> = finished'
  BY <1>1, ConcatBytes
<1>3. /\ Len(finished) \in Nat /\ Len(bytes) \in Nat /\ n \in Nat
      /\ DOMAIN finished = 1 .. Len(finished)
  BY <1>1 DEF Bytes
<1>4. DOMAIN finished' = 1 .. Len(finished) + Len(bytes)
  BY <1>1, <1>3, ConcatProperties DEF Bytes
<1>5. missing \subseteq 1 .. Len(finished)
  BY <1>3 DEF WInv, WrittenInOrder
<1>6. (Len(finished) + n + 1 .. Len(finished) + Len(bytes))
         \subseteq 1 .. Len(finished) + Len(bytes)
  BY <1>3
<1>7. 1 .. Len(finished) \subseteq 1 .. Len(finished) + Len(bytes)
  BY <1>3
<1>8. missing' = missing \cup (Len(finished) + n + 1 .. Len(finished) + Len(bytes))
  BY DEF finish
<1> QED
  BY <1>1, <1>2, <1>4, <1>5, <1>6, <1>7, <1>8, Zenon

\* What the write_buffer is filled with comes off the front of the queue.
LEMMA FillSplits ==
    ASSUME WInv, fill_write_buffer
    PROVE  /\ write_buffer' \in Bytes /\ input_byte_queue' \in Bytes
           /\ write_buffer' \o input_byte_queue' = input_byte_queue
<1>1. input_byte_queue \in Bytes /\ Len(input_byte_queue) \in Nat
  BY DEF WInv, Bytes
<1> DEFINE n == Least(WriteChunk, Len(input_byte_queue))
<1>2. n \in 0 .. Len(input_byte_queue)
  BY <1>1, TickAssumptions DEF Least
<1>3. /\ write_buffer' = SubSeq(input_byte_queue, 1, n)
      /\ input_byte_queue' = Drop(input_byte_queue, n)
  BY DEF fill_write_buffer
<1> HIDE DEF n
<1> QED
  BY <1>1, <1>2, <1>3, Split

\* A tick fills the write buffer only when no write is outstanding.
LEMMA StartWriteKeeps ==
    ASSUME WInv, start_write, UNCHANGED <<to_give, given>>
    PROVE  WInv'
<1>1. CASE UNCHANGED writeVars
  BY <1>1, WritingUnchanged
<1>2. ASSUME ~waiting_on_write, fill_write_buffer,
             \/ /\ oWrite' = "idle"
                /\ \E n \in 0 .. Len(write_buffer') : finish(write_buffer', n)
                /\ waiting_on_write' = waiting_on_write
             \/ /\ oWrite' = "pending" /\ waiting_on_write' = TRUE
                /\ UNCHANGED <<finished, missing>>
      PROVE  WInv'
  <2>1. /\ write_buffer' \in Bytes /\ input_byte_queue' \in Bytes
        /\ write_buffer' \o input_byte_queue' = input_byte_queue
    BY <1>2, FillSplits
  <2>2. finished \in Bytes /\ <<>> \in Bytes /\ oWrite = "idle"
    BY <1>2 DEF WInv, Bytes
  <2>3. finished \o <<>> = finished /\ finished \o write_buffer' \in Bytes
    BY <2>1, <2>2, ConcatBytes
  <2>4. given = finished \o input_byte_queue
    BY <2>2, <2>3 DEF WInv, WrittenInOrder
  <2>5. (finished \o write_buffer') \o input_byte_queue'
           = finished \o (write_buffer' \o input_byte_queue')
    BY <2>1, <2>2, Assoc, ZenonT(60)
  <2>6. given' = (finished \o write_buffer') \o input_byte_queue'
    BY <2>1, <2>4, <2>5
  <2>7. ASSUME oWrite' = "idle", waiting_on_write' = waiting_on_write,
               NEW n \in 0 .. Len(write_buffer'), finish(write_buffer', n)
        PROVE  WInv'
    <3>1. /\ finished' = finished \o write_buffer' /\ finished' \in Bytes
          /\ finished' \o <<>> = finished'
          /\ missing' \subseteq DOMAIN finished'
      BY <2>1, <2>7, FinishKeeps
    <3>2. WrittenInOrder'
      BY <2>6, <2>7, <3>1 DEF WrittenInOrder
    <3> QED
      BY <1>2, <2>1, <2>2, <2>7, <3>1, <3>2 DEF WInv
  <2>8. CASE oWrite' = "pending" /\ waiting_on_write' = TRUE
             /\ UNCHANGED <<finished, missing>>
    <3>1. WrittenInOrder'
      BY <2>6, <2>8, Zenon DEF WInv, WrittenInOrder
    <3> QED
      BY <1>2, <2>1, <2>2, <2>8, <3>1, Zenon DEF WInv
  <2> QED
    BY <1>2, <2>7, <2>8, Zenon
<1> QED
  BY <1>1, <1>2, Zenon DEF start_write

\* The operating system completes a write.
LEMMA WriteCompletesKeeps ==
    ASSUME WInv, WriteCompletes
    PROVE  WInv'
<1>1. /\ oWrite = "pending" /\ oWrite' = "signaled"
      /\ UNCHANGED <<to_give, given, waiting_on_write, input_byte_queue>>
  BY DEF WriteCompletes
<1>2. PICK n \in 0 .. Len(write_buffer) :
         finish(write_buffer, n) /\ write_buffer' = SubSeq(write_buffer, 1, n)
  BY DEF WriteCompletes
<1>3. /\ finished' = finished \o write_buffer /\ finished' \in Bytes
      /\ finished' \o <<>> = finished'
      /\ missing' \subseteq DOMAIN finished'
  BY <1>2, FinishKeeps DEF WInv
<1>4. write_buffer' \in Bytes
  BY <1>2, Split DEF WInv
<1>5. WrittenInOrder'
  BY <1>1, <1>3, SMTT(60) DEF WInv, WrittenInOrder
<1> QED
  BY <1>1, <1>3, <1>4, <1>5 DEF WInv

\* A tick sees a completed write, once.
LEMMA TickWriteKeeps ==
    ASSUME WInv, TickWrite
    PROVE  WInv'
<1>1. /\ oWrite = "signaled"
      /\ UNCHANGED <<to_give, given, write_buffer, input_byte_queue, finished,
                     missing>>
  BY DEF TickWrite, WriteSeen
<1>2. CASE UNCHANGED <<oWrite, waiting_on_write>>
  BY <1>1, <1>2, WritingUnchanged DEF writeVars
<1>3. ASSUME write_buffer # <<>>, oWrite' = "idle", waiting_on_write' = FALSE
      PROVE  WInv'
  BY <1>1, <1>3 DEF WInv, WrittenInOrder
<1> QED
  BY <1>2, <1>3, Zenon DEF TickWrite

\* However the operating system completes writes and the program calls, every
\* byte given to serial_port_write has gone through a completed write, is held
\* for one or is queued, once and in order, and what the line misses of it is
\* the ends of writes that came back short.
THEOREM WritingCorrect == TickSpec => []WrittenInOrder
<1>1. TickInit => WInv
  <2> SUFFICES ASSUME TickInit PROVE WInv
    OBVIOUS
  <2>1. /\ to_give = Outgoing /\ oWrite = "idle" /\ write_buffer = <<>>
        /\ input_byte_queue = <<>> /\ given = <<>> /\ finished = <<>>
        /\ missing = {} /\ waiting_on_write = FALSE
    BY DEF TickInit
  <2>2. Outgoing \in Seq(Bytes) /\ <<>> \in Bytes
    BY TickAssumptions DEF Bytes
  <2>3. <<>> \o <<>> = <<>>
    BY <2>2, ConcatBytes
  <2>4. WrittenInOrder
    BY <2>1, <2>3 DEF WrittenInOrder
  <2> QED
    BY <2>1, <2>2, <2>4 DEF WInv
<1>2. WInv /\ [TickNext]_tickVars => WInv'
  <2> SUFFICES ASSUME WInv, [TickNext]_tickVars PROVE WInv'
    OBVIOUS
  <2>1. CASE \/ serial_port_read \/ ReadCompletes \/ UNCHANGED tickVars
             \/ serial_port_init \/ serial_port_open
    BY <2>1, WritingUnchanged DEF serial_port_read, ReadCompletes, tickVars,
       serial_port_init, serial_port_open
  <2>2. CASE tick_start
    BY <2>2, StartWriteKeeps DEF tick_start
  <2>3. CASE tick_wait
    BY <2>3, TickWriteKeeps, WritingUnchanged DEF tick_wait, TickRead, TickNothing
  <2> QED
    BY <2>1, <2>2, <2>3, GiveKeeps, WriteCompletesKeeps, SMTT(60) DEF TickNext
<1>3. WInv => WrittenInOrder
  BY DEF WInv
<1> QED
  BY <1>1, <1>2, <1>3, PTL DEF TickSpec

=============================================================================
