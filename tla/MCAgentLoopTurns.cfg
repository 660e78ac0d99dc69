\* Three turns that queue, are held, cancelled, retried and disposed of.
CONSTANTS
    Prompts = {p1, p2}
    Notices = {n1}
    Steers = {}
    FollowUps = {}
    Continuations = {}
    None = None
    MaxSteps = 2
    MaxAttempts = 2
    MaxLeases = 1
SYMMETRY Symmetry
SPECIFICATION Spec
INVARIANTS
    TypeOK
    TurnIdsAccounted
    ReceiptsAccounted
    NoLostWakeup
    QuiescenceIsQuiet
    DisposalSettlesAll
PROPERTIES
    StartTakesClockId
    CancelledNeverDelivered
    CancelStopsDelivery
    TurnQueueRefinement
\* Once every request of the instance has been used the loop rests.
CHECK_DEADLOCK FALSE
