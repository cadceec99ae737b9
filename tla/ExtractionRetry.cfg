\* One record and one configuration, resumed again and again.
SPECIFICATION Spec
CONSTANTS
    f = f
    g = g
    Fingerprints <- OneConfiguration
    RecordCount = 1
    MaxRuns = 4
INVARIANTS
    RetriedAtMostOnce
CHECK_DEADLOCK FALSE
