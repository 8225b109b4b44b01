SPECIFICATION Spec
CONSTANTS
    Daemons = {d1, d2}
    Continuous = {d1, d2}
    DailyTasks = 2
    DailyTools = 1
    DailyTokens = 2
    TaskTools = 1
    TaskTokens = 1
    MinTokens = 1
    Overrun = 0
    MaxCalls = 1
    Fallback = TRUE
    Overlapping = TRUE
    Crashes = FALSE
    Failures = FALSE
    LastDay = 1
    Nobody = Nobody
INVARIANTS
    OneDaemon
CHECK_DEADLOCK FALSE
