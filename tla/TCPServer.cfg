SPECIFICATION Spec
CONSTANTS
    MaxSockets = 3
    MaxBytes = 3
    Size = 2
    MaxTries = 1
INVARIANTS TypeOK NothingLost SessionsFreedOnce WithinBuffer ReceiveTells
CHECK_DEADLOCK FALSE
