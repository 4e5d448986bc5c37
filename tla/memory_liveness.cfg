CONSTANTS
    Requests = {r1, r2, r3}
    Cancelable = {}
    Amounts = {2}
    Base = 4
    Reserve = 2
SPECIFICATION FairSpec
PROPERTIES
    EveryRequestReturns
CHECK_DEADLOCK FALSE
