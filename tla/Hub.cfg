\* a holds one channel and replaces it while messages are under way.
SPECIFICATION Spec
CONSTANTS
    a = a
    b = b
    c = c
    a1 = a1
    a2 = a2
    b1 = b1
    s = s
    t = t
    Peers <- MCPeers
    Conns <- MCConns
    Owner <- MCOwner
    Sessions <- MCSessions
    Parties <- MCParties
    MessagesPerWindow = 1
    Window = 1
    MaxClock = 0
    MaxFrames <- OneEach
SYMMETRY ConnSymmetry
CHECK_DEADLOCK FALSE
INVARIANTS
    HeldIsServed
    ReplacedIsClosing
    DeliveredToTheOther
PROPERTIES
    NewestIsKept
