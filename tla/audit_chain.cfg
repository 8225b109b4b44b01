SPECIFICATION LiveSpec
CONSTANTS
    Processes = {"first", "second"}
    Events = {"one", "two", "other"}
    RecordedBy <- MCRecordedBy
    PoolMax = 1
    Zero = "zero"
INVARIANTS
    ChainVerifies
    ReturnedIsDurable
PROPERTIES
    LogSpec
    WritesSettle
CHECK_DEADLOCK FALSE
