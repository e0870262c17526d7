SPECIFICATION Spec
CONSTANTS
    NanoPrefix = 4
    Word = 18
    Bases = {3}
    Delays = {1, 2}
    Residences = {5}
    Offsets <- MCOffsets
    Gains <- MCGains
    AddendInit = 16
    AddendLimit = 20
    Grain = 4
    MaxErr = 4
PROPERTY OffsetIsSet
CHECK_DEADLOCK FALSE
