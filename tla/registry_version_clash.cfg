SPECIFICATION Spec
CONSTANTS
    Uploads = {u1, u2}
    Deletions = {}
    Slots = {s1}
    NoDocument = NoDocument
    MaxInFlight = 2
    MaxAborted = 0
INVARIANTS
    ReuploadIncrementsVersion
CHECK_DEADLOCK FALSE
