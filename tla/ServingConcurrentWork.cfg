\* The demo's promise of one AI request at work.
SPECIFICATION Spec
CONSTANTS
    Profile = "demo"
    r1 = r1
    r2 = r2
    r3 = r3
    Requests <- TwoRequests
    Endpoints = {"search"}
    Workers = 2
    MaxConcurrent = 1
    RateLimit = 2
    Window = 2
    MaxClock = 0
SYMMETRY Symmetry
INVARIANTS
    ConcurrentWorkBounded
CHECK_DEADLOCK FALSE
