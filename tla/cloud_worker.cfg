SPECIFICATION MCSpec
CONSTANTS
    Flows = {"f1", "f2"}
    Callbacks = {"c1", "c2"}
    Pages = {"p1"}
    Subjects = {"owner", "guest"}
    None = "none"
    Arrivals = {"one", "two", "three", "other"}
    ClientOf <- MCClientOf
    Limit = 2
    Keep = 1
    MaxDelay = 1
    LastMinute = 3
    Lookups = {"l1", "l2"}
    LastKey = 2
    MaxAges = {0, 5}
    MinLife = 1
    MaxLife = 2
    MaxFetch = 2
    LastTick = 4
    Requests = {r1, r2, r3}
    Estimates = {1, 2}
    Cap = 3
    Overrun = 1
    TwoStage = TRUE
    DbFaults = TRUE
    LastDay = 2
SYMMETRY Symmetry
INVARIANTS
    TypeOK
    RowsStayUnderCap
    RowIsExact
    RepliesHaveReceipts
    AdmittedWithinLimit
    RefusedOverLimit
    AppleSessionsAreLinked
    LinksWereAsked
PROPERTIES
    WithdrawnKeysFade
    AnnouncedKeysAreKnown
CHECK_DEADLOCK FALSE
