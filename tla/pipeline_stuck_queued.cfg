SPECIFICATION SlowEmbedding
CONSTANTS
    Docs = {d1}
    Workers = {w1}
    NumBatches = 1
    MaxRetries = 3
    NoDoc = NoDoc
    Faults = {"timelimit"}
    MaxCrashes = 0
PROPERTIES
    FailureIsRecorded
CHECK_DEADLOCK FALSE
