SPECIFICATION TimedFairSpec
CONSTANTS
    SeqMod = 4
    FifoLength = 1
    MaxSync = 1
    MaxReset = 0
    MaxDup = 0
    MaxForeign = 0
    MaxRestart = 1
    RespTimeout = 4
    MaxDelay = 2
    FollowUpBound = 4
PROPERTY DropoutRecovery
CHECK_DEADLOCK FALSE
