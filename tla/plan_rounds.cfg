SPECIFICATION MCSpec
CONSTANTS
    StepCount = 3
    Descriptions = {1, 2, 3}
    Given = {"pending", "in_progress"}
    OnlyOrdered = FALSE
INVARIANTS
    EachStepOnce
    CompletedIsSettled
PROPERTIES
    EndsUnlessVoid
CHECK_DEADLOCK FALSE
