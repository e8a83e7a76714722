SPECIFICATION ClientSpec
CONSTANTS
    Clients = {c1, c2, c3}
    MaxIdle = 1
    MaxActive = 2
    Sockets = {s1, s2, s3, s4}
    Requests = {r1, r2}
    NoClient = NoClient
    NoSocket = NoSocket
SYMMETRY Symm
INVARIANTS
    RequestKeepsSocket
    ClosedPoolHoldsNoSocket
CHECK_DEADLOCK FALSE
