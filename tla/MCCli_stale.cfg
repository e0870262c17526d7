SPECIFICATION Spec
CONSTANTS
    CliMax = 5
    Words <- MCWords
    Lines <- MCLines
    MaxSessions = 2
PROPERTY FoundIsCalled
CONSTRAINT Unshared
CHECK_DEADLOCK FALSE
