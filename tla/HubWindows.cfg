\* Two peers in one session, each with a channel that may break at any time; one
\* keeps sending across the windows.
SPECIFICATION FairSpec
CONSTANTS
    a = a
    b = b
    c = c
    a1 = a1
    a2 = a2
    b1 = b1
    s = s
    t = t
    Peers <- MCPeers
    Conns <- TwoConns
    Owner <- TwoOwners
    Sessions <- OneSession
    Parties <- OnePair
    MessagesPerWindow = 1
    Window = 1
    MaxClock = 4
    MaxFrames <- JustA
CHECK_DEADLOCK FALSE
INVARIANTS
    WithinAllowance
PROPERTIES
    BrokenIsDropped
