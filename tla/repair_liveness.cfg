CONSTANTS
    NumSegments = 1
    Existing = 1
    MaxIndex = 1
    maxStuckChunksInHeap = 1
    MaxPasses = 2
    MaxFaults = 2
SPECIFICATION FairSpec
PROPERTIES
    ImplementsCustody
    EntriesRemoved
    StreamReturns
CHECK_DEADLOCK FALSE
