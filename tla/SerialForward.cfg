SPECIFICATION FairSpec
CONSTANTS
    Conns <- MCConns
    Stream <- OneStream
    PartialWrites = TRUE
    MaxReadSize = 20
    MaxFailures = 2
INVARIANTS ForwardedInOrder FailuresLeaveNoGap QueueIsServed
PROPERTIES EverythingIsWritten
\* The client's stream ends.
CHECK_DEADLOCK FALSE
