SPECIFICATION FairSpec
CONSTANTS
    ClusterSize = 3
    NumBlocks = 3
    NumFiles = 2
    MaxOpen = 2
    MaxEnd = 3
PROPERTIES
    OwnBlock
CHECK_DEADLOCK FALSE
