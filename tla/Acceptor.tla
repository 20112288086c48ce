------------------------------ MODULE Acceptor ------------------------------
(***************************************************************************)
(* The TCP acceptors of src/udptoserial/main.cpp.  main() opens one for    *)
(* every configured port, each with a Tcp_server_handler whose socket the  *)
(* next connection is joined to, and runs the io_service; the accept       *)
(* handler starts the joined Tcp_server_handler and puts a new one up for  *)
(* the next connection.  What a started handler does is SerialForward's.   *)
(*                                                                         *)
(* The listen queue and the clients are the operating system's.  Handlers  *)
(* are numbered in the order of tcp_server_handler_list_.                  *)
(***************************************************************************)
EXTENDS Naturals, Sequences

CONSTANTS
    port_numbers, \* config.port_numbers
    Clients,      \* programs that connect, once each
    None,         \* no client
    MaxFailures   \* bound: failed calls of the operating system, and resets

Ports == {port_numbers[i] : i \in DOMAIN port_numbers}

\* With a number twice in the file the second bind throws and main() ends.
ASSUME AcceptorAssumption ==
    /\ port_numbers \in Seq(Ports)
    /\ \A i, j \in DOMAIN port_numbers :
          port_numbers[i] = port_numbers[j] => i = j
    /\ None \notin Clients
    /\ MaxFailures \in Nat

VARIABLES
    running,    \* no exception has left main()
    to_open,    \* ports the loop in main() has not come to
    listening,  \* the keys of tcp_server_acceptor_map_
    handlers,   \* the length of tcp_server_handler_list_
    standby,    \* standby[p]: handler of the pending async_accept, 0 for none
    accepted,   \* accepted[p]: handler whose accept has completed, its accept
                \* handler not yet run; 0 for none
    failed,     \* ports whose last accept completed with an error
    backlog,    \* backlog[p]: clients the operating system holds for p
    peer,       \* peer[h]: the client at the socket of handler h, or None
    started,    \* handlers whose start() has been called
    reset,      \* clients that have reset their connection
    failures

acceptVars == <<listening, handlers, standby, accepted, failed, peer, started>>

clientVars == <<backlog, reset>>

vars == <<running, to_open, acceptVars, clientVars, failures>>

Init ==
    /\ running = TRUE
    /\ to_open = port_numbers
    /\ listening = {}
    /\ handlers = 0
    /\ standby = [p \in Ports |-> 0]
    /\ accepted = [p \in Ports |-> 0]
    /\ failed = {}
    /\ backlog = [p \in Ports |-> <<>>]
    /\ peer = <<>>
    /\ started = {}
    /\ reset = {}
    /\ failures = 0

-----------------------------------------------------------------------------
(* main().                                                                 *)

\* make_shared, push_back, async_accept: a new handler stands by at p.
queue_handler(p) ==
    /\ handlers' = handlers + 1
    /\ peer' = Append(peer, None)
    /\ standby' = [standby EXCEPT ![p] = handlers + 1]

\* An exception that nobody catches ends the program.
throw ==
    /\ running' = FALSE
    /\ UNCHANGED <<to_open, acceptVars, clientVars>>

\* One turn of the loop over the ports.
open_acceptor ==
    /\ running /\ to_open # <<>>
    /\ \/ /\ to_open' = Tail(to_open)
          /\ listening' = listening \cup {Head(to_open)}
          /\ queue_handler(Head(to_open))
          /\ UNCHANGED <<running, accepted, failed, started, clientVars,
                         failures>>
       \/ /\ failures < MaxFailures
          /\ failures' = failures + 1
          /\ throw

\* Mutants: the accepting handler stands by again in the place of a new one; no
\* handler does.
accept_handler_reused(p) ==
    LET handler == accepted[p] IN
    /\ running /\ to_open = <<>>
    /\ handler # 0
    /\ \/ /\ p \in failed
          /\ accepted' = [accepted EXCEPT ![p] = 0]
          /\ UNCHANGED <<running, to_open, listening, handlers, standby,
                         failed, peer, started, clientVars, failures>>
       \/ /\ p \notin failed /\ peer[handler] \in reset
          /\ throw
          /\ UNCHANGED failures
       \/ /\ p \notin failed /\ peer[handler] \notin reset
          /\ accepted' = [accepted EXCEPT ![p] = 0]
          /\ started' = started \cup {handler}
          /\ standby' = [standby EXCEPT ![p] = handler]
          /\ UNCHANGED <<running, to_open, listening, handlers, peer, failed,
                         clientVars, failures>>

accept_handler_once(p) ==
    LET handler == accepted[p] IN
    /\ running /\ to_open = <<>>
    /\ handler # 0
    /\ \/ /\ p \in failed
          /\ accepted' = [accepted EXCEPT ![p] = 0]
          /\ UNCHANGED started
       \/ /\ p \notin failed
          /\ accepted' = [accepted EXCEPT ![p] = 0]
          /\ started' = started \cup {handler}
    /\ UNCHANGED <<running, to_open, listening, handlers, standby, peer, failed,
                   clientVars, failures>>

\* Runs once main() has left its loop.  With an error it only returns.  The
\* log line asks for the endpoint of the peer, which throws when the peer has
\* reset the connection.
tcp_server_accept_handler(p) ==
    LET handler == accepted[p] IN
    /\ running /\ to_open = <<>>
    /\ handler # 0
    /\ \/ /\ p \in failed
          /\ accepted' = [accepted EXCEPT ![p] = 0]
          /\ UNCHANGED <<running, to_open, listening, handlers, standby,
                         failed, peer, started, clientVars, failures>>
       \/ /\ p \notin failed /\ peer[handler] \in reset
          /\ throw
          /\ UNCHANGED failures
       \/ /\ p \notin failed /\ peer[handler] \notin reset
          /\ accepted' = [accepted EXCEPT ![p] = 0]
          /\ started' = started \cup {handler}
          /\ queue_handler(p)
          /\ UNCHANGED <<running, to_open, listening, failed, clientVars,
                         failures>>

-----------------------------------------------------------------------------
(* The operating system and the clients.                                   *)

Waiting(c) == \E p \in Ports : \E i \in DOMAIN backlog[p] : backlog[p][i] = c

Joined(c) == \E h \in DOMAIN peer : peer[h] = c

connect(c, p) ==
    /\ running /\ p \in listening
    /\ ~Waiting(c) /\ ~Joined(c) /\ c \notin reset
    /\ backlog' = [backlog EXCEPT ![p] = Append(@, c)]
    /\ UNCHANGED <<running, to_open, acceptVars, reset, failures>>

\* A pending async_accept is given the first connection of the listen queue.
accept(p) ==
    /\ running
    /\ standby[p] # 0 /\ backlog[p] # <<>>
    /\ peer' = [peer EXCEPT ![standby[p]] = Head(backlog[p])]
    /\ backlog' = [backlog EXCEPT ![p] = Tail(@)]
    /\ accepted' = [accepted EXCEPT ![p] = standby[p]]
    /\ standby' = [standby EXCEPT ![p] = 0]
    /\ UNCHANGED <<running, to_open, listening, handlers, failed, started,
                   reset, failures>>

\* It fails, for want of descriptors for example.
accept_fails(p) ==
    /\ running /\ failures < MaxFailures
    /\ standby[p] # 0
    /\ failed' = failed \cup {p}
    /\ accepted' = [accepted EXCEPT ![p] = standby[p]]
    /\ standby' = [standby EXCEPT ![p] = 0]
    /\ failures' = failures + 1
    /\ UNCHANGED <<running, to_open, listening, handlers, peer, started,
                   clientVars>>

\* A connection that is reset stays in the listen queue, or at its socket.
reset_connection(c) ==
    /\ running /\ failures < MaxFailures
    /\ Waiting(c) \/ Joined(c)
    /\ c \notin reset
    /\ reset' = reset \cup {c}
    /\ failures' = failures + 1
    /\ UNCHANGED <<running, to_open, acceptVars, backlog>>

-----------------------------------------------------------------------------
Next ==
    \/ open_acceptor
    \/ \E p \in Ports :
          \/ tcp_server_accept_handler(p)
          \/ accept(p)
          \/ accept_fails(p)
    \/ \E c \in Clients : reset_connection(c) \/ \E p \in Ports : connect(c, p)

Spec == Init /\ [][Next]_vars

\* main() goes through its loop and io_service::run runs the handlers that are
\* ready; the operating system completes an accept it has a connection for.
Fairness ==
    /\ WF_vars(open_acceptor)
    /\ \A p \in Ports : /\ WF_vars(tcp_server_accept_handler(p))
                        /\ WF_vars(accept(p))

FairSpec == Spec /\ Fairness

-----------------------------------------------------------------------------
(* Properties.                                                             *)

Handlers == 1 .. handlers

\* Until the program ends, every open port has one accept under way: a handler
\* standing by or one whose accept handler is due, never both, unless an accept
\* has failed there, after which it has none.
OneAcceptPerPort ==
    \A p \in listening :
        /\ standby[p] = 0 \/ accepted[p] = 0
        /\ p \notin failed => standby[p] # 0 \/ accepted[p] # 0
        /\ p \in failed => standby[p] = 0

\* Every connection has a handler of its own: no two ports have the same
\* handler standing by or due, a handler standing by is joined to nobody and
\* has not been started, no two handlers serve one client, and every started
\* handler serves one.
OwnHandler ==
    /\ \A p \in listening :
          standby[p] # 0 => peer[standby[p]] = None /\ standby[p] \notin started
    /\ \A p, q \in listening :
          p # q => {standby[p], accepted[p]} \cap {standby[q], accepted[q]} \subseteq {0}
    /\ \A h \in started : peer[h] # None
    /\ \A g, h \in Handlers : peer[g] = peer[h] => g = h \/ peer[g] = None

\* A client that has connected is served by a started handler, unless it resets
\* the connection, an accept fails at its port or the program ends: however
\* many connect at once, none is left in the listen queue.
ClientsAreServed ==
    \A c \in Clients, p \in Ports :
        (\E i \in DOMAIN backlog[p] : backlog[p][i] = c)
            ~> \/ \E h \in started : peer[h] = c
               \/ c \in reset \/ p \in failed \/ ~running

=============================================================================
