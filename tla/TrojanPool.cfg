SPECIFICATION Spec
CONSTANTS
    Clients = {c1, c2, c3, c4, c5, c6}
    MaxIdle = 3
    MaxActive = 4
SYMMETRY ClientSymmetry
INVARIANTS
    IdleUsable
    NoOrphan
    CountBounded
PROPERTY ImplementsLease
CHECK_DEADLOCK FALSE
