SPECIFICATION CropSpec
CONSTANTS
    Width = 9
    Height = 7
    Beyond = 3
    Sizes <- SmallSquares
    MaxFaces = 2
INVARIANTS CropTypeOK CropFits
CHECK_DEADLOCK FALSE
