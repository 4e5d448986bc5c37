CONSTANTS
    NumSegments = 2
    Existing = 0
    MaxIndex = 2
    maxStuckChunksInHeap = 1
    MaxPasses = 2
    MaxFaults = 1
SPECIFICATION Spec
INVARIANTS
    TypeOK
    OneOwner
    HoldersAct
    OnlyFinishedStuck
    OwnChunksAnswered
CHECK_DEADLOCK FALSE
