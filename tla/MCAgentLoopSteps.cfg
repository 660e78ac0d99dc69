\* One turn's steps: tools, steers, follow-ups, retries, cancellation; and liveness.
CONSTANTS
    Prompts = {p1}
    Notices = {}
    Steers = {s1}
    FollowUps = {f1}
    Continuations = {c1}
    None = None
    MaxSteps = 2
    MaxAttempts = 2
    MaxLeases = 1
SPECIFICATION FairSpec
INVARIANTS
    NoStepLeftUnsettled
    NextTurnTakesStandalone
    DeliveredOnce
PROPERTIES
    CancelledTurnEnds
    DisposalDrains
    HeldIsReleased
\* Once every request of the instance has been used the loop rests.
CHECK_DEADLOCK FALSE
