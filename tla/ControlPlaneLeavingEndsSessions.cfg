SPECIFICATION FairSpec
CONSTANTS
    a = a
    b = b
    Peers <- MCPeers
    Policy <- MCPolicy
    Paths <- MCPaths
    Callers <- JustA
    Holders = {}
    Reporters <- JustB
    SuspectAfter = 1
    OfflineAfter = 2
    MaxPeers = 2
    NegotiationTimeout = 1
    Retention = 1
    MaxSessions = 1
    MaxSessionsPerPeer = 1
    RetainedPerLive = 1
    MaxClock = 3
    MaxOpens = 1
PROPERTIES
    LeavingEndsSessions
