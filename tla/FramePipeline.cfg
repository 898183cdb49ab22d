SPECIFICATION FairSpec
CONSTANTS
    MaxFrames = 4
INVARIANTS TypeOK MailboxExclusive TornByTwo
PROPERTIES TakesNewer ConfirmedFaces ListensAgain ShowsLatest
CHECK_DEADLOCK FALSE
