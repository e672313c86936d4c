CONSTANTS
    None = None
    NoCall = NoCall
    c1 = c1
    c2 = c2
    realpath <- MCRealpath
    lower <- MCLower
    Policy <- MCPolicy
    Ids <- Ids2
    Calls <- UncheckedCalls
    MaxFailures = 0
    MaxCrashes = 0
SPECIFICATION FairSpec
CHECK_DEADLOCK FALSE
INVARIANTS
    EveryCallChecked
