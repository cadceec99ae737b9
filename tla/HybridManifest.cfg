\* An interrupted holdout resumed: its manifest ends complete without a query.
SPECIFICATION Spec
CONSTANTS
    cpu = cpu
    gpu = gpu
    x = x
    y = y
    DevCount = 2
    HoldoutCount = 2
    Devices <- OneDevice
    Validated = cpu
    Results <- TwoResults
INVARIANTS
    CompleteListsQueries
CHECK_DEADLOCK FALSE
