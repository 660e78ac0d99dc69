SPECIFICATION Spec
CONSTANTS
    NumCalls = 3
    Paths <- MCPaths
    AccessLists <- MCAccessLists
INVARIANTS
    TypeOK
    WaitsOnlyForConflicts
    ToolsNeverCollide
PROPERTIES
    AbortEndsBatch
CHECK_DEADLOCK FALSE
