SPECIFICATION Spec
CONSTANTS
    Requests = {r1, r2, r3, r4}
    Max = 2
    Window = 4
    MaxDelay = 1
    Faults = {"redis", "gateway"}
    MaxTime = 6
SYMMETRY Symmetry
INVARIANTS
    TypeOK
    JudgedWithinLimit
    DenialHasCause
    WindowLimit
CHECK_DEADLOCK FALSE
