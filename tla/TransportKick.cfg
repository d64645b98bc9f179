SPECIFICATION Spec
CONSTANTS
    MaxConn = 2
    MaxAttempts = 1
PROPERTY KickedIsFreed
CHECK_DEADLOCK FALSE
