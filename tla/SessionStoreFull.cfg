\* Three peers in up to two sessions each, two live sessions in all: the store
\* fills up, and a peer hangs up on several sessions at once.
SPECIFICATION FairSpec
CONSTANTS
    a = a
    b = b
    c = c
    Peers <- MCPeers
    Policy <- MCPolicy
    Paths <- MCNoPaths
    NegotiationTimeout = 1
    Retention = 0
    MaxSessions = 2
    MaxSessionsPerPeer = 2
    RetainedPerLive = 1
    MaxClock = 2
    MaxOpens = 2
INVARIANTS
    IndexesExact
    OneLiveSessionPerPair
PROPERTIES
    TimeoutIsFailure
    NegotiationEnds
