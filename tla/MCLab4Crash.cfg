SPECIFICATION CrashSpec
CONSTANTS
    NumInodes = 5
    NumBlocks = 3
    DirSlots = 5
    MaxOpenFile = 4
    Names = {n1, n2}
    MaxCrashes = 2
    MaxDeleted = 1
SYMMETRY NameSymmetry
CONSTRAINT FewDeleted
INVARIANTS
    NumberFree
PROPERTIES
    NamesKept
    MarkedKept
    DotsKept
