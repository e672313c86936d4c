SPECIFICATION Spec
CONSTANTS
    r1 = r1
    Runs = {r1}
    Options <- VerifiedOptions
    Requirements <- NetworkOnly
    Children = {"child", "quiet", "escaped"}
    MaxCalls = 1
    MaxFailures = 1
INVARIANTS
    VerifiedBeforeRunning
CHECK_DEADLOCK FALSE
