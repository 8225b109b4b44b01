SPECIFICATION Spec
CONSTANTS
    StepCount = 3
    Descriptions = {"a", "b", "c"}
    Given = {"pending"}
    OnlyOrdered = TRUE
INVARIANTS
    DependenciesFirst
CHECK_DEADLOCK FALSE
