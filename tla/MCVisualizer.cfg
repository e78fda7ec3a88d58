CONSTANTS
    Files <- MCFiles
    MaxReads = 2
SPECIFICATION Spec
INVARIANTS
    TypeOK
    ButtonsTellTheTruth
    PictureIsCurrent
    EveryGoalIsCelebrated
