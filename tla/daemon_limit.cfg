SPECIFICATION Spec
CONSTANTS
    Daemons = {d1}
    Continuous = {d1}
    DailyTasks = 3
    DailyTools = 12
    DailyTokens = 12
    TaskTools = 4
    TaskTokens = 4
    MinTokens = 1
    Overrun = 0
    MaxCalls = 4
    Fallback = TRUE
    Overlapping = FALSE
    Crashes = FALSE
    Failures = FALSE
    LastDay = 1
    Nobody = Nobody
INVARIANTS
    DailyToolLimit
CHECK_DEADLOCK FALSE
