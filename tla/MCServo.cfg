SPECIFICATION Spec
CONSTANTS
    NanoPrefix = 4
    Word = 18
    Bases = {3}
    Delays = {1, 2}
    Residences = {0, 5}
    Offsets <- MCOffsets
    Gains <- MCGains
    AddendInit = 16
    AddendLimit = 20
    Grain = 4
    MaxErr = 4
INVARIANTS
    MeasuresError
    ControllerInRange
PROPERTIES
    JumpLands
    JumpSettles
    DerivativeFits
    TuningOpposes
CHECK_DEADLOCK FALSE
