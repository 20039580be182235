SPECIFICATION Spec
CONSTANTS
    NumInodes = 6
    NumBlocks = 3
    DirSlots = 5
    MaxOpenFile = 4
    Names = {n1, n2}
    MaxDeleted = 1
SYMMETRY NameSymmetry
CONSTRAINT FewDeleted
INVARIANTS
    TypeOK
    EntriesLive
    OneEntryEach
    Connected
    BlocksExclusive
    FreeBlocksExact
    RoomToCreate
    Durable
    BlocksLow
PROPERTIES
    BlocksKept
    FreshNumbers
    NamesStayUnique
    ImplementsNamespace
