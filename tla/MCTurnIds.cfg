\* Two crashes, up to seven ids.
CONSTANTS
    NoTurn = NoTurn
    MaxTurnId = 6
    MaxCrashes = 2
SPECIFICATION Spec
INVARIANTS
    TypeOK
    ClockAhead
    ReservedIdsAccounted
PROPERTY StartsAreFresh
\* Once all ids are used and every turn is over, nothing is left to do.
CHECK_DEADLOCK FALSE
