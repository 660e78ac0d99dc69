\* A steer that the run of its turn did not take.
CONSTANTS
    Prompts = {p1}
    Notices = {}
    Steers = {s1}
    FollowUps = {}
    Continuations = {c1}
    None = None
    MaxSteps = 3
    MaxAttempts = 2
    MaxLeases = 0
SPECIFICATION Spec
PROPERTY AgentScopedCarriesOver
CHECK_DEADLOCK FALSE
