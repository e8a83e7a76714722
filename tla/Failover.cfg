SPECIFICATION FairFailover
CONSTANTS
    a = a
    b = b
    Names <- TwoNodes
    Configs <- Unchanged
    Order <- ListOrder
    Weight <- Uneven
    Cycle = 3
    MaxRetries = 1
    Workers = {w1, w2}
    Reloads = {}
    Clients = {c1, c2}
    MaxIdle = 1
    MaxActive = 1
    MaxPools = 2
    Free = Free
    NoClient = NoClient
INVARIANTS
    RoundsFollowWeights
    BrokenNeverLent
    CallsSettle
PROPERTY CallsEnd
CHECK_DEADLOCK FALSE
