\* Crashes, expired leases, shutdowns, failed writes, failed requests.
SPECIFICATION FairSpec
CONSTANTS
    Runs = {r1}
    Workers = {w1, w2}
    NoRun = NoRun
    MaxRetry = 3
    Limit <- EveryFault
INVARIANTS RepeatNeedsFault CompletedRunIsClosed SucceededHasOutput
PROPERTIES FollowsLifecycle EveryRunEnds
CHECK_DEADLOCK FALSE
