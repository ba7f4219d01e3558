SPECIFICATION Spec
CONSTANTS
    Docs = {d1}
    Workers = {w1}
    NumBatches = 1
    MaxRetries = 3
    NoDoc = NoDoc
    Faults = {"qdrant"}
    MaxCrashes = 0
INVARIANTS
    CriticalMeansExhausted
CHECK_DEADLOCK FALSE
