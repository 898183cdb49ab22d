SPECIFICATION FairSpec
CONSTANTS
    MaxTargets = 3
    Rotated = FALSE
INVARIANTS TypeOK BitmapOfTarget NoTargetLeaks
PROPERTIES ShowsAgain
CHECK_DEADLOCK FALSE
