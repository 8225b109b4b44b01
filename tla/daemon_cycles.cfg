SPECIFICATION MCSpec
CONSTANTS
    Daemons = {d1, d2}
    Continuous = {d1}
    DailyTasks = 2
    DailyTools = 2
    DailyTokens = 1
    TaskTools = 2
    TaskTokens = 2
    MinTokens = 2
    Overrun = 0
    MaxCalls = 2
    Fallback = TRUE
    Overlapping = FALSE
    Crashes = TRUE
    Failures = TRUE
    LastDay = 2
    Nobody = Nobody
    Listeners = {"c1", "c2"}
    Retries = TRUE
    ProbeTime = 1
    PostTime = 2
    SendTime = 1
    Beat = 2
    StaleAfter = 5
    LogTime = 1
    Interval = 2
    Nothing = Nothing
INVARIANTS
    TypeOK
    VisibleWhileServing
    StartsWithinLimit
    UseNearLimits
    NoFalseAlarm
    WellIsRecent
    ListenersAgree
    ShownIsTrue
PROPERTIES
    CountersSurvive
    StopEnds
CHECK_DEADLOCK FALSE
