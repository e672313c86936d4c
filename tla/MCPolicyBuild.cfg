CONSTANTS
    None = None
    realpath <- Inside
    lower <- MCLower
    Statements <- MCStatements
    Documents <- MCDocuments
    Links <- MCLinks
    Names <- MCNames
    Locations <- MCLocations
    Targets <- MCTargets
    Baseline <- MCBaseline
    MaxCalls = 3
    MaxBuilds = 2
SPECIFICATION Spec
CHECK_DEADLOCK FALSE
INVARIANTS
    EnginesAreFit
    BuiltAsSaid
    CoreKeepsBoundary
    DocumentsAsListed
