SPECIFICATION LogFairSpec
CONSTANTS
    MaxLines = 1
    MaxRead = 3
    MaxSessions = 1
PROPERTY StopEnds
CHECK_DEADLOCK FALSE
