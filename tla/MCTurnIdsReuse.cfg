\* A crash after a queued turn behind others was cancelled.
CONSTANTS
    NoTurn = NoTurn
    MaxTurnId = 6
    MaxCrashes = 2
SPECIFICATION Spec
PROPERTY CancelledIdsStayReserved
\* Once all ids are used and every turn is over, nothing is left to do.
CHECK_DEADLOCK FALSE
