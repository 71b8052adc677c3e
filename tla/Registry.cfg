SPECIFICATION FairSpec
CONSTANTS
    a = a
    b = b
    c = c
    Peers <- MCPeers
    SuspectAfter = 1
    OfflineAfter = 2
    MaxPeers = 2
    MaxClock = 6
INVARIANTS
    RefusedOnlyWhenFull
PROPERTIES
    OnlyTheGoneLeave
    ReadmittedByRegistering
    TheGoneLeave
