SPECIFICATION Spec
CONSTANTS
    search = search
    git = git
    eq = eq
    absentTool = absentTool
    run = run
    stream = stream
    NoTool = NoTool
    Tools = {search, git, eq, absentTool}
    Class <- MCClass
    Registered <- MCRegistered
    Blocking <- MCBlocking
    Grants <- MCGrants
    Tasks = {run}
    Streams = {}
    MaxToolCalls = 1
    MaxAttempts = 2
    Durable = TRUE
    MirrorFaults = FALSE
    MayCrash = FALSE
INVARIANTS
    MirrorIsComplete
CHECK_DEADLOCK FALSE
