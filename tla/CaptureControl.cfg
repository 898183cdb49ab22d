SPECIFICATION FairSpec
CONSTANTS
    MaxCaptures = 3
    CreateFails = TRUE
INVARIANTS TypeOK OneListener
PROPERTIES WaitsEnd
CHECK_DEADLOCK FALSE
