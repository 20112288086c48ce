SPECIFICATION Spec
CONSTANTS
    AlphaMsgs = 2
    BravoMsgs = 1
    MaxEnqTries = 2
    MaxInfoTries = 2
    MaxFaults = 2
    LineCap = 5
    Garbling = TRUE
    LateTimeouts = TRUE
INVARIANT TypeOK
INVARIANT NeverReordered
INVARIANT SelectionIsTimed
INVARIANT NothingSkipped
CHECK_DEADLOCK FALSE
