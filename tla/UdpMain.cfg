SPECIFICATION FairSpec
CONSTANTS
    N = 2
    RetryDelay = 2
    Bauds <- MCBauds
    PacketLen = 1500
    MaxInbox = 2
    MaxPackets = 4
    MaxErrors = 2
INVARIANTS ListIsTheQueue SentInOrder UsesOpenHandle
PROPERTIES SocketsSettle PacketsAreSent
