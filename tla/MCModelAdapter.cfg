SPECIFICATION AdapterFairSpec
CONSTANTS
    c1 = c1
    c2 = c2
    k1 = k1
    k2 = k2
    Callers = {c1, c2}
    FailureThreshold = 2
    OpenDuration = 2
    HalfOpenMaxCalls = 2
    Keys = {k1, k2}
    NoKey = NoKey
    MaxPolls = 2
INVARIANTS NoMissedTransition StampIsFresh NoWastedCall
PROPERTIES RecoversWithUpstream
