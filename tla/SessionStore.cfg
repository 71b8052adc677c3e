\* Three peers held to one session each, two records: the per-peer cap and the
\* bound on retained records are both reached.
SPECIFICATION Spec
CONSTANTS
    a = a
    b = b
    c = c
    Peers <- MCPeers
    Policy <- MCAllowAll
    Paths <- MCNoPaths
    NegotiationTimeout = 1
    Retention = 1
    MaxSessions = 2
    MaxSessionsPerPeer = 1
    RetainedPerLive = 1
    MaxClock = 3
    MaxOpens = 3
SYMMETRY PeerSymmetry
INVARIANTS
    EndedListExact
    WithinCeilings
    TooManyIsReal
    OpenAnswersLive
PROPERTIES
    ForgottenWhenDue
    
    ImplementsLife
