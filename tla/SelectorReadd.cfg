SPECIFICATION ServingSpec
CONSTANTS
    a = a
    b = b
    Names <- TwoNodes
    Configs <- AddAndRemove
    Workers = {w1, w2}
    Reloads = {g1, g2}
    Clients = {c1, c2, c3}
    MaxIdle = 1
    MaxActive = 1
    MaxPools = 3
    Free = Free
    NoClient = NoClient
SYMMETRY Symm
INVARIANT NodeLimit
CHECK_DEADLOCK FALSE
