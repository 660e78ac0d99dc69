\* A step cancelled while it waits to be retried.
CONSTANTS
    Prompts = {p1}
    Notices = {}
    Steers = {s1}
    FollowUps = {}
    Continuations = {c1}
    None = None
    MaxSteps = 3
    MaxAttempts = 2
    MaxLeases = 0
SPECIFICATION Spec
PROPERTY StepCancelSparesTurn
CHECK_DEADLOCK FALSE
