CONSTANTS
    Workers = {w1, w2}
    NumPieces = 2
    MinPieces = 1
SPECIFICATION FairSpec
CHECK_DEADLOCK FALSE
INVARIANTS
    TypeOK
    ResponsibilityCounted
    HelperFindsPiece
    UploadsDistinct
    AllMemoryReleased
    ClosedOnce
    FreedUntouched
    AvailableIsRecoverable
    NeverStuck
PROPERTIES
    KeepsPromise
    UploadEnds
