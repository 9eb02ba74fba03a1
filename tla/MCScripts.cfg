CONSTANTS
    SimMax = 4
    PollMax = 2
    OtherModems <- MCOtherModems
    Boards = 3
    OffTime = 2
    Limit = 12
    DisturbMax = 1
SPECIFICATION MCSpec
INVARIANTS
    WaitSound RefusedOnlyFirst CardsCovered RowTruthful
    ExitZeroMeansOff KilledOnlyOverdue
\* Both scripts end.
CHECK_DEADLOCK FALSE
