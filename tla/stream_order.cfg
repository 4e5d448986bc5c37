CONSTANTS
    NumSegments = 2
    Existing = 1
    MaxIndex = 2
    maxStuckChunksInHeap = 1
    MaxPasses = 1
    MaxFaults = 0
SPECIFICATION Spec
INVARIANTS
    StreamInOrder
CHECK_DEADLOCK FALSE
