CONSTANTS
    Jobs = {j1, j2}
    Sub = sub
    Costs = {1, 2}
    Target = 4
    HostMax = 4
    Budget = 2
    Subscribes = TRUE
    MaxMoney = 4
    MaxCrashes = 1
SPECIFICATION Spec
INVARIANTS
    SessionsPaid
