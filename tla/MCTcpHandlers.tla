--------------------------- MODULE MCTcpHandlers ---------------------------
(***************************************************************************)
(* The handlers of the acceptors and of the client connections on the one  *)
(* io_service they share: they run one at a time, and an exception out of  *)
(* any of them ends the program for all.                                   *)
(***************************************************************************)
EXTENDS Acceptor

CONSTANTS Conns, Sizes, MaxMessages, MaxWriteFailures

VARIABLES reading, made, posted, send_packet_queue, writing, written, line,
          writeFailures

Q == INSTANCE SharedQueue WITH MaxFailures <- MaxWriteFailures,
                               failures <- writeFailures

acceptorVars == <<to_open, acceptVars, clientVars, failures>>

queueVars == <<reading, made, posted, send_packet_queue, writing, written,
               line, writeFailures>>

allVars == <<vars, queueVars>>

MCPortNumbers == <<8888, 8889>>

MCSizes == {1, 2}

DaemonInit == Init /\ Q!Init

DaemonNext ==
    \/ Next /\ UNCHANGED queueVars
    \/ Q!Next /\ UNCHANGED acceptorVars

DaemonSpec == DaemonInit /\ [][DaemonNext]_allVars /\ Fairness /\ Q!Fairness

-----------------------------------------------------------------------------
(* Properties of the client connections, in the company of the acceptors.  *)

\* The messages of all connections come out on the line whole and in the order
\* in which they were sent.
MessagesStayWhole == Q!MessagesStayWhole

\* Every message sent goes out to its last byte, unless a write fails or the
\* program ends.
MessagesGoOut == Q!MessagesGoOut

=============================================================================
