\* Both peers call, and one closes its client; one channel is lost or one
\* request fails.
SPECIFICATION Spec
CONSTANTS
    a = a
    b = b
    Peers <- MCPeers
    Callers <- MCPeers
    Leavers <- JustA
    MaxCalls = 2
    MaxSessions = 1
    MaxFaults = 1
INVARIANTS
    HeldIsOpen
    
    
CHECK_DEADLOCK FALSE
