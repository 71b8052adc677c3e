SPECIFICATION FairSpec
CONSTANTS
    s1 = s1
    s2 = s2
    s3 = s3
    l1 = l1
    l2 = l2
    Sockets <- MCSockets
    Loops <- MCLoops
    NoSocket = NoSocket
    MaxStarts = 2
    MaxFaults = 2
    Overlap = FALSE
INVARIANTS
    HeldWillReport
    OneLoop
    
PROPERTIES
    Reopens
    LoopsEnd
    
CHECK_DEADLOCK FALSE
