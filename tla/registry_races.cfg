SPECIFICATION Spec
CONSTANTS
    Uploads = {u1, u2, u3, u4}
    Deletions = {x1, x2}
    Slots = {s1, s2}
    NoDocument = NoDocument
    MaxInFlight = 3
    MaxAborted = 2
INVARIANTS
    TypeOK
    SuccessorReplaces
    DeletedStaysHidden
    AtMostOneLatest
    ListedAtItsVersion
PROPERTIES
    ImplementsVersionHistory
CHECK_DEADLOCK FALSE
