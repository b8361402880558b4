CONSTANTS
    Clients = {c1, c2}
    PageIds <- MCPageIds
    Capacity = 2
    MaxLoads = 5
    MaxWrites = 3
    None = None
SPECIFICATION Spec
SYMMETRY ClientSymmetry
INVARIANT PoolMatchesLru
INVARIANT MarkedWriteDurable
CHECK_DEADLOCK FALSE
