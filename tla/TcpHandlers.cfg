SPECIFICATION DaemonSpec
CONSTANTS
    port_numbers <- MCPortNumbers
    Clients = {c1, c2}
    None = None
    MaxFailures = 1
    Conns = {s1, s2}
    Sizes <- MCSizes
    MaxMessages = 2
    MaxWriteFailures = 1
INVARIANTS OneAcceptPerPort OwnHandler MessagesStayWhole
PROPERTIES ClientsAreServed MessagesGoOut
\* The clients and servers need not send anything, and an exception ends the
\* program.
CHECK_DEADLOCK FALSE
