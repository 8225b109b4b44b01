SPECIFICATION MCSpec
CONSTANTS
    search = search
    git = git
    eq = eq
    absentTool = absentTool
    run = run
    stream = stream
    NoTool = NoTool
    Tools = {search, git, eq, absentTool}
    Class <- MCClass
    Registered <- MCRegistered
    Blocking <- MCBlocking
    Grants <- MCGrants
    Tasks = {run, stream}
    Streams = {stream}
    MaxToolCalls = 2
    MaxAttempts = 3
    Durable = TRUE
    MirrorFaults = TRUE
    MayCrash = TRUE
INVARIANTS
    TypeOK
    NoToolAfterCancel
    StartsAreGoverned
    TerminalIsLast
    StatusMatchesLedger
    CallsAreClosed
    DurableIsFaithful
PROPERTIES
    RunsSettle
    StatusNeverReturns
    ImplementsLifecycle
CHECK_DEADLOCK FALSE
