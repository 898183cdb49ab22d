SPECIFICATION FairSpec
CONSTANTS
    MaxPictures = 3
    MaxDuplicates = 1
    Answers <- MCAnswers
    Flags <- MCFlags
INVARIANTS TypeOK EditBoxReady PhoneFollows LabelsTogether
PROPERTIES ResultShown PhoneShows
CHECK_DEADLOCK FALSE
