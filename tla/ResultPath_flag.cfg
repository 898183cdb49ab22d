SPECIFICATION Spec
CONSTANTS
    MaxPictures = 1
    MaxDuplicates = 0
    Answers <- MCAnswers
    Flags <- MCFlags
INVARIANTS FlagAsDocumented
CHECK_DEADLOCK FALSE
