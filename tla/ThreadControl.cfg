SPECIFICATION FairSpec
CONSTANTS
    MaxThreads = 3
    MaxPolls = 2
    PriorityFails = FALSE
    GoEnds = TRUE
INVARIANTS TypeOK OneThread
PROPERTIES IsOneWorker ExitHeeded
CHECK_DEADLOCK FALSE
