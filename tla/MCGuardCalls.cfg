CONSTANTS
    None = None
    NoCall = NoCall
    c1 = c1
    c2 = c2
    realpath <- MCRealpath
    lower <- MCLower
    Policy <- MCPolicy
    Ids <- Ids2
    Calls <- AllCalls
    MaxFailures = 1
    MaxCrashes = 2
SPECIFICATION FairSpec
CHECK_DEADLOCK FALSE
INVARIANTS
    TypeOK
    NoEffectWithoutRecord
    TrailIsTruthful
    BodiesWithinBudget
    GuardTimeoutsHold
    ArgumentsAreChecked
PROPERTIES
    SyncCallsEnd
