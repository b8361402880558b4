CONSTANTS
    Clients = {c1, c2, c3}
    Slaves = {s1, s2}
    Keys = {k1, k2}
    Empty = Empty
SPECIFICATION FairSpec
INVARIANT TypeOK
INVARIANT ExactlyOnce
INVARIANT AppliesInPushOrder
PROPERTY PushedReplicated
CHECK_DEADLOCK FALSE
