SPECIFICATION Spec
CONSTANTS
    Conns <- MCTwoConns
    Stream <- TwoStreams
    PartialWrites = TRUE
    MaxReadSize = 20
    MaxFailures = 0
INVARIANTS FramesStayWhole
CHECK_DEADLOCK FALSE
