CONSTANTS
    Sectors = {s1, s2}
    Zero = zero
    MaxRevision = 3
    MaxTxns = 4
    MaxCrashes = 2
SPECIFICATION Spec
INVARIANTS
    TypeOK
    NoCritical
    RootsMatch
PROPERTIES
    Implements
CHECK_DEADLOCK FALSE
