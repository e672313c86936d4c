CONSTANTS
    None = None
    NoThread = NoThread
    t1 = t1
    t2 = t2
    realpath <- MCRealpath
    lower <- MCLower
    Tools <- MCTools
    Policy <- MCPolicy
    Threads <- MCThreads
    Requests <- RateRequests
    Horizon = 6
    MaxStall = 1
SYMMETRY Symmetry
SPECIFICATION Spec
INVARIANTS
    RateLimitExact
