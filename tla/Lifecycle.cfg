SPECIFICATION FairSpec
CONSTANTS
    FifoLength = 2
    RespPolls = 4
    TaskCreateFails = FALSE
    MaxSessions = 4
INVARIANTS
    LeakBounded
    CallbackHasFifo
    TaskIsReady
    DeletesPtpTask
    StaleTimersBounded
    LifeInv
PROPERTIES
    SessionStarts
    SessionStops
CHECK_DEADLOCK FALSE
