CONSTANTS
    Times = {1, 5}
    MaxTimestamp = 9
    MaxGeneration = 3
CHECK_DEADLOCK FALSE
SPECIFICATION FairSpec
INVARIANTS
    ReleasedWhenUnused
PROPERTIES
    FramesHaveParameters
    TimestampsIncrease
    StopCompletes
