SPECIFICATION Spec
CONSTANTS
    Messages <- MCMessages
    MaxMessages = 3
    MaxPrefixLen = 1
    MaxMessageLen = 6
    ReadSize = 3
    MaxFaults = 2
    Noise <- MCNoise
INVARIANTS ReadsMayCutAnywhere BufferBounded
PROPERTY StepIsKept
\* The application need not send any more, and an abort ends the process.
CHECK_DEADLOCK FALSE
