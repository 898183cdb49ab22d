SPECIFICATION Spec
CONSTANTS
    MaxSockets = 2
    MaxBytes = 4
    Size = 3
    MaxTries = 4
INVARIANTS BytesReceived
CHECK_DEADLOCK FALSE
