SPECIFICATION Spec
CONSTANTS
    Requests = {r1, r2, r3}
    Estimates = {1, 2}
    Cap = 2
    Overrun = 0
    TwoStage = FALSE
    DbFaults = FALSE
    LastDay = 2
INVARIANTS
    DailyCapHolds
CHECK_DEADLOCK FALSE
