SPECIFICATION Spec
CONSTANTS
    SeqMod = 2
    FifoLength = 1
    MaxSync = 2
    MaxReset = 1
    MaxDup = 1
    MaxForeign = 1
    MaxRestart = 1
INVARIANTS
    ReqBufHeld
    FollowUpWaitIsTimed
    ExchangeMatched
    IInv
CHECK_DEADLOCK FALSE
