\* Two records and a crash.
CONSTANTS
    Torn = Torn
    Corrupt = Corrupt
    MaxRecords = 2
    MaxRewrites = 0
    MaxBuffers = 1
    MaxRefs = 0
    MaxCrashes = 1
SPECIFICATION Spec
INVARIANT TornTailIsDropped
CHECK_DEADLOCK FALSE
