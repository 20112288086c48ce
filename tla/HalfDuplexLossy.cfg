SPECIFICATION FairSpec
CONSTANTS
    AlphaMsgs = 3
    BravoMsgs = 2
    MaxEnqTries = 2
    MaxInfoTries = 2
    MaxFaults = 4
    LineCap = 4
    Garbling = FALSE
    LateTimeouts = FALSE
INVARIANT NobodyDies
INVARIANT NoCollision
INVARIANT NoDuplicates
INVARIANT MasterHasSlave
PROPERTY ImplementsLink
PROPERTY OnlyUntimedWaitsLast
PROPERTY AlphaMessagesArrive
CHECK_DEADLOCK FALSE
