SPECIFICATION FairSpec
CONSTANTS
    MaxConns = 3
    MaxPictures = 2
    ShutdownFails = TRUE
INVARIANTS TypeOK NeverStale SessionUsable OneLiveConnection
PROPERTIES StreamsPictures Reconnects
CHECK_DEADLOCK FALSE
