SPECIFICATION Spec
CONSTANTS
    MaxFrames = 2
INVARIANTS ImgDisAlive
CHECK_DEADLOCK FALSE
