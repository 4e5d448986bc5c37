CONSTANTS
    Requests = {r1, r2, r3}
    Cancelable = {r1, r2, r3}
    Amounts = {1, 5}
    Base = 4
    Reserve = 1
SPECIFICATION Spec
INVARIANTS
    TypeOK
    Conservation
    ReturnWithinBase
    WaitersHaveWaker
    QueuedOnce
PROPERTIES
    ImplementsPool
CHECK_DEADLOCK FALSE
SYMMETRY Symmetry
