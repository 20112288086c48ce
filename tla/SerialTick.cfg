SPECIFICATION FairTickSpec
CONSTANTS
  Incoming <- MCIncoming
  Outgoing <- MCOutgoing
  ReadChunk = 2
  WriteChunk = 2
INVARIANTS ReceivedInOrder WrittenInOrder
PROPERTY EverythingGoesOut
\* A completion in the background with no bytes makes serial_port_tick throw, which ends the program.
CHECK_DEADLOCK FALSE
