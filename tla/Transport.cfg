SPECIFICATION Spec
CONSTANTS
    MaxConn = 2
    MaxAttempts = 1
INVARIANT TypeOK
INVARIANT OneReader
INVARIANT EndsInOrder
CHECK_DEADLOCK FALSE
