SPECIFICATION Spec
CONSTANTS
    c1 = c1
    c2 = c2
    k1 = k1
    Clients = {c1, c2}
    Keys = {k1}
    NoKey = nokey
    MaxWrites = 2
    MaxLost = 1
INVARIANT StaleHasCause
PROPERTIES CacheConverges DeletedStaysDeleted
CHECK_DEADLOCK FALSE
