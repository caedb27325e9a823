SPECIFICATION ApplicationSpec
CONSTANTS
    Connections = 1
    AutoLoad = FALSE
    Unplugs = FALSE
INVARIANTS
    ClosedIsQuiet
CHECK_DEADLOCK FALSE
