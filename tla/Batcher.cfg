CONSTANTS
    BufferSizes = {0, 2}
    MaxItems = 3
    MaxStarts = 2
SPECIFICATION FairSpec
INVARIANTS
    TimersGuardBatch
    EmptyOnlyIfOvertaken
    InOrderOnce
PROPERTY BatchIsFinished
CHECK_DEADLOCK FALSE
