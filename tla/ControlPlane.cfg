\* a holds channels, b calls it and registers, and there is room for one of
\* them in the registry.
SPECIFICATION FairSpec
CONSTANTS
    a = a
    b = b
    Peers <- MCPeers
    Policy <- MCPolicy
    Paths <- MCPaths
    Callers <- JustB
    Holders <- JustA
    Reporters <- JustB
    SuspectAfter = 1
    OfflineAfter = 2
    MaxPeers = 1
    NegotiationTimeout = 2
    Retention = 1
    MaxSessions = 1
    MaxSessionsPerPeer = 1
    RetainedPerLive = 1
    MaxClock = 3
    MaxOpens = 1
INVARIANTS
    ToldIsUnderWay
PROPERTIES
    ChannelRegisters
    SweptSessionsEnd
    ClosedIsTold
