SPECIFICATION FairSpec
CONSTANTS
    MaxSize = 4
    MaxBytes = 3
    BufferCapacity = 2
    Inputs <- Streams
    EnabledSets <- CategorySets
INVARIANTS OneAnswerPerRequest CapIsExact CallableIffListed
PROPERTIES EveryStreamEnds
CHECK_DEADLOCK FALSE
