SPECIFICATION FairSpec
CONSTANTS
    r1 = r1
    Runs = {r1}
    Options <- RunOptions
    Requirements <- Strictest
    Children = {"child", "quiet", "escaped"}
    MaxCalls = 1
    MaxFailures = 1
INVARIANTS
    TypeOK
    CommandNeverUncovered
    RefusalsNeverRun
    NoNeedlessRefusal
    TimeoutEndsGroup
PROPERTIES
    TimedRunsEnd
CHECK_DEADLOCK FALSE
