CONSTANTS
    None = None
    NoThread = NoThread
    t1 = t1
    t2 = t2
    realpath <- MCRealpath
    lower <- MCLower
    Tools <- MCTools
    Policy <- MCPolicy
    Threads <- MCThreads
    Requests <- AllRequests
    Horizon = 3
    MaxStall = 1
SPECIFICATION FairSpec
INVARIANTS
    TypeOK
    TalliesMatchAnswers
    CapsHold
    RateWithinStall
PROPERTIES
    DenialJustified
    ImplementsQuota
    ChecksAreAnswered
