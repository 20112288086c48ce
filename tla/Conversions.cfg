SPECIFICATION Spec
CONSTANTS
    Bytes <- MCBytes
    MaxBytes = 4
    MaxSlipPackets = 3
    PayloadBytes <- MCPayloadBytes
    MaxLen = 5
    MaxForeign = 2
    Addresses <- MCAddresses
    PortWords <- MCPortWords
    Payloads <- MCPayloads
    MaxBuilt = 2
    Lines <- MCLines
    PortNames = {"port1", "port2"}
    MaxPorts = 2
    MaxLines = 5
INVARIANTS
    StreamRoundTrip
    EncodesBits TextRoundTrip
    HeadersRoundTrip ChecksumNeedsNoCarry
    LastLineWins FirstPortsKept
\* Each input is finite.
CHECK_DEADLOCK FALSE
