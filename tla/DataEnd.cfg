SPECIFICATION FairSpec
CONSTANTS
    ClusterSize = 3
    NumBlocks = 3
    NumFiles = 2
    MaxOpen = 2
    MaxEnd = 6
PROPERTIES
    EveryWriteReturns
CHECK_DEADLOCK FALSE
