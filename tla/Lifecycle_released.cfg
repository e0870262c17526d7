SPECIFICATION Spec
CONSTANTS
    FifoLength = 2
    RespPolls = 4
    TaskCreateFails = FALSE
    MaxSessions = 4
INVARIANT PacketsReleased
CHECK_DEADLOCK FALSE
