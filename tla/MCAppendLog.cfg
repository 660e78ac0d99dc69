\* Three records, two rewrites, two buffers after each other, a crash.
CONSTANTS
    Torn = Torn
    Corrupt = Corrupt
    MaxRecords = 3
    MaxRewrites = 2
    MaxBuffers = 2
    MaxRefs = 1
    MaxCrashes = 1
SPECIFICATION Spec
INVARIANTS
    TypeOK
    InOrder
    NoneMissing
    
PROPERTIES
    BufferDrains
    RetirementSettles
    DurableLogRefinement
CHECK_DEADLOCK FALSE
