SPECIFICATION MCSpec
CONSTANTS
    Workers = {w1, w2}
    DayTicks = 1
    WeekDays = 2
    Retention = 1
    TimeLimit = 1
    MaxClock = 3
    MaxQueue = 2
    MaxCrashes = 1
    FirstClock = 2
SYMMETRY Symmetry
INVARIANTS
    TypeOK
    SuccessMeansStored
    NothingExpiredIsLeft
PROPERTY
    LastBackupStays
CHECK_DEADLOCK FALSE
