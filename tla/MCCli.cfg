SPECIFICATION Spec
CONSTANTS
    CliMax = 5
    Words <- MCWords
    Lines <- MCLines
    MaxSessions = 5
INVARIANTS
    CliInv
    TableFits
    TableComplete
PROPERTIES
    
    KnownIsFound
CONSTRAINT Unshared
CHECK_DEADLOCK FALSE
