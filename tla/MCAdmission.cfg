SPECIFICATION Spec
CONSTANTS
    c1 = c1
    c2 = c2
    k1 = k1
    Clients = {c1, c2}
    Keys = {k1}
    NoKey = NoKey
    Burst <- Bursts
    Life <- Lives
    Unit = 2
    MaxConcurrent = 1
    MaxRequests = 4
    MaxTicks = 2
    MaxFaults = 1
SYMMETRY Symmetry
INVARIANTS LimitIsRespected LoadIsCounted LatecomersDoNotRun
CHECK_DEADLOCK FALSE
