SPECIFICATION Spec
CONSTANTS
    Payloads <- MCPayloads
    MaxMessages = 3
    MaxFaults = 1
    ReadSize = 30
    MaxLen = 23
INVARIANTS StaleTextIsHarmless DamageIsLocal
\* The daemon need not send any more packets.
CHECK_DEADLOCK FALSE
