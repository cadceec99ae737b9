\* The public demo: one permit, two admissions per window, one thread whose work may hang.
SPECIFICATION FairSpec
CONSTANTS
    Profile = "demo"
    r1 = r1
    r2 = r2
    r3 = r3
    Requests <- ThreeRequests
    Endpoints = {"search", "extract_hybrid", "documents"}
    Workers = 1
    MaxConcurrent = 1
    RateLimit = 2
    Window = 2
    MaxClock = 3
INVARIANTS
    TypeOK
    SlotAccounting
PROPERTIES
    ImplementsAdmission
    EveryRequestAnswered
    ShutdownCompletes
CHECK_DEADLOCK FALSE
