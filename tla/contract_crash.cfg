CONSTANTS
    Sectors = {s1, s2}
    Zero = zero
    MaxRevision = 3
    MaxTxns = 3
    MaxCrashes = 1
SPECIFICATION Spec
INVARIANTS
    PreOrPost
CHECK_DEADLOCK FALSE
