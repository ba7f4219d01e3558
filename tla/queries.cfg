SPECIFICATION MCSpec
CONSTANTS
    Docs = {d1, d2}
    NoDoc = NoDoc
    NumPassages = 3
    MaxCopies = 2
    ScrollLimit = 6
    MaxEvents = 2
    Faults = {"qdrant", "redis", "ollama"}
    RRF_K = 60
    MaxRank = 4
    Runs = {q1}
    Alike = {1}
    Scopes = {{d1, d2}}
    TopKVector = 1
    TopKBm25 = 1
    TopK = 3
    FinalKs = {1, 3}
    CacheTTL = 2
    MaxRun = 1
    MaxScanned = 3
    MaxList = 3
    FusedPassages = {1, 2}
SYMMETRY Symmetry
INVARIANTS
    TypeOK
    
    FusedIsRanking
    KeywordSearchMissesNothing
    PassagesAreCited
    AnswersAge
CHECK_DEADLOCK FALSE
