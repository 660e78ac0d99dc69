\* Two keys and two writers, three calls, a compaction, and a failure or a crash.
CONSTANTS
    Keys = {k1, k2}
    Writers = {w1, w2}
    MaxCalls = 3
    MaxPasses = 1
    MaxCompactions = 1
    MaxFaults = 1
SPECIFICATION Spec
INVARIANTS
    TypeOK
    
    RefusedOnlyOnFailure
PROPERTIES
    EveryWriteSettles
\* Once all calls are made and answered the database rests.
CHECK_DEADLOCK FALSE
