\* Every graph on three ids, with up to two parallel edges; the diamond with
\* two permits and two attempts.
SPECIFICATION MCSpec
CONSTANTS
    a = a
    b = b
    c = c
    d = d
    e = e
    Nodes <- Five
    Edges <- Diamond
    Depth <- DiamondDepth
    NumLayers = 3
    MayLackHandler = {d}
    MaxConcurrency = 2
    MaxAttempts = 2
    MayTimeout = TRUE
    MayPanic = {b, c}
    MayLoseWrites = {c, e}
    Ids = {"x", "y", "z"}
    MaxParallel = 2
    MaxRepeats = 1
INVARIANTS StartsAfterUpstream BoundedConcurrency OkMeansAllSucceeded WaitedRowsAreClosed
    AcceptsExactlyDags LayersAreTight
PROPERTIES RowsTellTheTruth ExecutionEnds
CHECK_DEADLOCK FALSE
