SPECIFICATION TimedFairSpec
CONSTANTS
    SeqMod = 4
    FifoLength = 1
    MaxSync = 1
    MaxReset = 1
    MaxDup = 1
    MaxForeign = 1
    MaxRestart = 1
    RespTimeout = 4
    MaxDelay = 2
    FollowUpBound = 2
INVARIANTS
    TimedTypeOK
    DelayRespWaitIsTimed
    TimedShape
PROPERTIES
    DropoutRecovery
    FollowUpWaitEnds
    BlockedSenderGetsRoom
CHECK_DEADLOCK FALSE
