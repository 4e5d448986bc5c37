CONSTANTS
    Requests = {r1, r2}
    Cancelable = {r1, r2}
    Amounts = {2, 3}
    Base = 4
    Reserve = 1
SPECIFICATION Spec
INVARIANTS
    FalseMeansNotAllocated
CHECK_DEADLOCK FALSE
