SPECIFICATION ClockSpec
CONSTANTS
    SeqMod = 2
    FifoLength = 4
    MaxSync = 3
    MaxReset = 0
    MaxDup = 0
    MaxForeign = 0
    MaxRestart = 1
INVARIANTS
    SyncMatched
    OneRequestEach
    SyncSurvivesOneJump
    ClockInv
PROPERTY ImplementsCycle
CHECK_DEADLOCK FALSE
