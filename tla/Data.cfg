SPECIFICATION Spec
CONSTANTS
    ClusterSize = 3
    NumBlocks = 3
    NumFiles = 2
    MaxOpen = 2
    MaxEnd = 4
INVARIANTS
    TypeOK
    NothingOfOthers
    SizeReached
CHECK_DEADLOCK FALSE
