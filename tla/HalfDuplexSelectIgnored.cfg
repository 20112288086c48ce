SPECIFICATION FairSpec
CONSTANTS
    AlphaMsgs = 0
    BravoMsgs = 1
    MaxEnqTries = 2
    MaxInfoTries = 2
    MaxFaults = 0
    LineCap = 4
    Garbling = FALSE
    LateTimeouts = FALSE
PROPERTY SelectRequestAnswered
CHECK_DEADLOCK FALSE
