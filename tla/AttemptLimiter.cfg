\* Three identifiers and room for two: the sweep and the eviction both happen.
SPECIFICATION Spec
CONSTANTS
    a = a
    b = b
    x = x
    Clients <- MCClients
    Configured <- MCConfigured
    Allowance = 2
    Window = 1
    SweepThreshold = 1
    MaxTracked = 2
    MaxInFlight = 2
    MaxOrder = 4
    MaxClock = 3
SYMMETRY Interchangeable
CHECK_DEADLOCK FALSE
INVARIANTS
    Evictable
    OverrunIsBounded
PROPERTIES
    ForgivenOnlyByTime
