CONSTANTS
    None = None
    l1 = l1
    l2 = l2
    p1 = p1
    p2 = p2
    workspace = workspace
    tools = tools
    Launchers <- MCLaunchers
    Pids <- MCPids
    Paths <- SharedPath
    Policies <- SharingPolicies
    MaxFailures = 0
    MaxKills = 0
SPECIFICATION Spec
CHECK_DEADLOCK FALSE
INVARIANTS
    GrantsEndWithRun
