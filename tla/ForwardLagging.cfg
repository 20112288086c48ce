SPECIFICATION FairSpec
CONSTANTS
    Conns <- MCConns
    Stream <- OneStream
    PartialWrites = FALSE
    MaxReadSize = 20
    MaxFailures = 0
PROPERTIES PacketsAreForwarded
CHECK_DEADLOCK FALSE
