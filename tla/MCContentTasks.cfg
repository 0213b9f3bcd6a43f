SPECIFICATION ContentSpec
CONSTANTS
    a1 = a1
    a2 = a2
    Actors = {a1, a2}
    MaxRetry = 1
    MaxFaults = 1
    MaxEdits = 1
    EpisodeLists <- Answers
    ShotLists <- Shots
SYMMETRY Symmetry
INVARIANTS SplitStatusIsTrue StoryboardIsWhole OneCurrentPrompt NoVideoIsForgotten UsageIsRecorded
CHECK_DEADLOCK FALSE
