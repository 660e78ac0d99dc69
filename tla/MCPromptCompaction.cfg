\* Two prompts, a turn of the loop's own, a compaction.
CONSTANTS
    Prompts = {p1, p2}
    None = None
    Other = Other
    MaxOthers = 1
    MaxCompactions = 1
SPECIFICATION Spec
INVARIANT StartNextReturns
CHECK_DEADLOCK FALSE
