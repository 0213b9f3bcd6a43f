SPECIFICATION ContentSpec
CONSTANTS
    a1 = a1
    a2 = a2
    Actors = {a1, a2}
    MaxRetry = 1
    MaxFaults = 0
    MaxEdits = 0
    EpisodeLists <- ProperAnswer
    ShotLists <- Shots
INVARIANT ResplitKeepsEpisodes
CHECK_DEADLOCK FALSE
