SPECIFICATION Spec
CONSTANTS
    Docs = {d1, d2}
    NoDoc = NoDoc
    NumPassages = 1
    MaxCopies = 2
    ScrollLimit = 3
    MaxEvents = 1
    Faults = {}
    RRF_K = 60
    MaxRank = 4
    Runs = {q1}
    Alike = {1}
    Scopes = {{d1, d2}}
    TopKVector = 1
    TopKBm25 = 1
    TopK = 3
    FinalKs = {1, 3}
    CacheTTL = 2
    MaxRun = 1
    MaxScanned = 2
    MaxList = 2
    FusedPassages = {1}
INVARIANT AnswersOmitDeleted
CHECK_DEADLOCK FALSE
