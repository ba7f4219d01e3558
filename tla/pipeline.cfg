SPECIFICATION NarrowSpec
CONSTANTS
    Docs = {d1}
    Workers = {w1, w2}
    NumBatches = 2
    MaxRetries = 1
    NoDoc = NoDoc
    Faults = {"disk", "gateway", "broker", "database", "embedding", "qdrant", "redis", "minio", "timelimit", "evict", "crash"}
    MaxCrashes = 1
INVARIANTS
    TypeOK
    IndexedMeansStored
    IndexedMeansComplete
    FailedOnlyWhenExhausted
    AttemptsBounded
    CopiesBoundedByRuns
PROPERTIES
    AcceptedSettles
    ImplementsLifecycle
CHECK_DEADLOCK FALSE
