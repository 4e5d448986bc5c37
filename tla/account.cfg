CONSTANTS
    Jobs = {j1}
    Sub = sub
    Costs = {1, 2}
    Target = 2
    HostMax = 2
    Budget = 1
    Subscribes = TRUE
    MaxMoney = 2
    MaxCrashes = 1
SPECIFICATION FairSpec
INVARIANTS
    TypeOK
    PendingMatches
    DeltasZeroAtSync
    
    
    RefillFits
    
PROPERTIES
    SyncEnds
