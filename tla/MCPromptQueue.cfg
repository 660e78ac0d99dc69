\* Three prompts, a turn of the loop's own, two compactions.
CONSTANTS
    Prompts = {p1, p2, p3}
    None = None
    Other = Other
    MaxOthers = 1
    MaxCompactions = 2
SPECIFICATION Spec
INVARIANTS
    TypeOK
    InOnePlace
    OnePromptAtATime
PROPERTIES
    SteeredEndTogether
    EveryPromptSettles
\* After the last prompt there is nothing left to do.
CHECK_DEADLOCK FALSE
