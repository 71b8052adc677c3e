SPECIFICATION Spec
CONSTANTS
    c1 = c1
    c2 = c2
    Callers <- MCCallers
    Envs <- MCEnvs
    ExpectedKey = "seed one"
    MaxPeerIDLen = 2
    MinSecretLen = 2
    MaxClientIDLen = 2
    MaxLaunches = 2
    MaxClock = 3
SYMMETRY CallerSymmetry
INVARIANTS
    
    VerdictIsRight
    MatchedBeforeCredential
