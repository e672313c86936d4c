CONSTANTS
    Limits <- MCLimits
    FileSize = "max_file_size_bytes"
SPECIFICATION Spec
CHECK_DEADLOCK FALSE
INVARIANTS
    TypeOK
    StrictRunsEnforced
    ReportIsHonest
    NothingUnrequested
PROPERTIES
    ImplementsLauncher
