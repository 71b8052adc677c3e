

SPECIFICATION Spec
CONSTANTS
    a = a
    b = b
    Peers <- MCPeers
    Callers <- MCPeers
    Leavers <- JustA
    MaxCalls = 2
    MaxSessions = 1
    MaxFaults = 1
INVARIANTS
    ShutIsEnded
CHECK_DEADLOCK FALSE
