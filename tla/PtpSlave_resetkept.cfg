SPECIFICATION Spec
CONSTANTS
    SeqMod = 4
    FifoLength = 1
    MaxSync = 2
    MaxReset = 1
    MaxDup = 0
    MaxForeign = 0
    MaxRestart = 0
INVARIANT ResetIsKept
CHECK_DEADLOCK FALSE
