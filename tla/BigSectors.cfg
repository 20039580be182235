SPECIFICATION Spec
CONSTANTS
    NumInodes = 6
    NumBlocks = 3
    DirSlots = 3
    MaxOpenFile = 4
    Names = {n1, n2}
    MaxDeleted = 1
SYMMETRY NameSymmetry
CONSTRAINT FewDeleted
PROPERTIES
    FullRefused
