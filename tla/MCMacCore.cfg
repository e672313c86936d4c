CONSTANTS
    None = None
    l1 = l1
    l2 = l2
    p1 = p1
    p2 = p2
    workspace = workspace
    Launchers <- MCLaunchers
    Pids <- MCPids
    Paths <- MCPaths
    Policies <- MCPolicies
    MaxFailures = 1
    MaxKills = 1
SYMMETRY Symmetry
SPECIFICATION Spec
CHECK_DEADLOCK FALSE
INVARIANTS
    TypeOK
    OutputIsItsOwn
    CaptureIsRemoved
PROPERTIES
    ImplementsLauncher
