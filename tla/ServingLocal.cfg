\* The full profile: every endpoint, every subset of the local assets.
SPECIFICATION Spec
CONSTANTS
    Profile = "local"
    r1 = r1
    r2 = r2
    r3 = r3
    Requests <- TwoRequests
    Endpoints = {"search", "answer", "extract_deterministic", "extract_hybrid", "documents"}
    Workers = 1
    MaxConcurrent = 1
    RateLimit = 2
    Window = 2
    MaxClock = 0
SYMMETRY Symmetry
INVARIANTS
    ReadinessIsHonest
PROPERTIES
    ResponseIsFinal
CHECK_DEADLOCK FALSE
